---- MODULE Spec2Model ----
\* A model of the rules engine of the Scrabble trainer (src/src/scrabble-strategy.jsx):
\* the board builder, the move enumerator, the scoring engine and the placement
\* validator, over a small lexicon.
EXTENDS Integers, Sequences, FiniteSets, TLC

VARIABLES
    WORD_SET,       \* the module's WORD_SET, which the engine reads (a set of words, each
                    \* a tuple of letters)
    bpc,            \* buildConnectedBoard: "seed", "grow", "done", "failed"
    board,          \* buildConnectedBoard: board[r][c] is a letter or NULL
    premiumsUsed,   \* buildConnectedBoard: the set of <<r, c>> keys set to true
    attempts,       \* buildConnectedBoard: the growth loop's counter
    tileCountSeen,  \* buildConnectedBoard: tileCount of the last committed placement, 0 before
    epc,            \* engine calls: "idle", "init", "enumerated", "validated", "roundtrip",
                    \* "scored", "defended"
    eboard,         \* the board given to findAllValidPlays / validatePlacement / scorePlay
    eused,          \* the premiumsUsed given to them
    rack,           \* the rack given to findAllValidPlays (a sequence of letters)
    plays,          \* the result of findAllValidPlays (a sequence of plays)
    placed,         \* the placed-tiles object: its entries <<<<r, c>>, letter>> in insertion order
    vplay,          \* the play whose new cells were given to validatePlacement, if any
    vmain,          \* validatePlacement's isH and wordPositions after the main word is chosen
    vres,           \* the result of validatePlacement
    sarg,           \* the arguments of the last direct scorePlay call
    sres,           \* its result
    dplay,          \* the play given to defenseScore
    dres,           \* twice the result of defenseScore
    apc,            \* the app: "off", "module", "crashed", "mount", "timer", "loop", "build", "rack",
                    \* "idle"
    dpc,            \* the dictionary fetch: "none", "fetching", "settled"
    wordSetCell,    \* the module's state cell that setWordSet writes
    isLoadingDictCell, \* the module's state cell that setIsLoadingDict writes
    isLoadingDict,  \* the component's state isLoadingDict, which the render guard reads
    loading,        \* state loading
    scenario,       \* state scenario (NoScenario for null)
    round,          \* state round: "offense", "defense", "done"
    offResult,      \* state offResult (NoOutcome for null)
    defResult,      \* state defResult (NoOutcome for null)
    errorMsg,       \* state error (NULL or a message)
    genCalls,       \* load: generateScenario calls made by the timer callback
    loadS,          \* load: the variable s of the timer callback
    buildCalls,     \* generateScenario: buildConnectedBoard calls made
    boardData,      \* generateScenario: the variable boardData
    selRack,        \* state selRack: a rack index counted from 1, 0 for null
    drag,           \* state drag: the rack index drag.idx counted from 1, 0 for null
    stats           \* state stats: played, offOk, defOk

vars == <<WORD_SET, bpc, board, premiumsUsed, attempts, tileCountSeen,
          epc, eboard, eused, rack, plays, placed, vplay, vmain, vres, sarg, sres,
          dplay, dres,
          apc, dpc, wordSetCell, isLoadingDictCell, isLoadingDict, loading, scenario, round,
          offResult, defResult, errorMsg,
          genCalls, loadS, buildCalls, boardData, selRack, drag, stats>>
bvars == <<bpc, board, premiumsUsed, attempts, tileCountSeen>>
evars == <<epc, eboard, eused, rack, plays, placed, vplay, vmain, vres, sarg, sres,
           dplay, dres>>
avars == <<apc, dpc, wordSetCell, isLoadingDictCell, isLoadingDict, loading, scenario, round,
           offResult, defResult, errorMsg,
           genCalls, loadS, buildCalls, boardData, selRack, drag, stats>>
dcells == <<wordSetCell, isLoadingDictCell>>

\* ---------------------------------------------------------------- constants

N == 15
NULL == "null"
UNDEF == "undefined"
Idx == 0 .. (N - 1)

Min(a, b) == IF a < b THEN a ELSE b
Max(a, b) == IF a > b THEN a ELSE b

\* TILE VALUES
TV == [A |-> 1, B |-> 3, C |-> 3, D |-> 2, E |-> 1, F |-> 4, G |-> 2, H |-> 4,
       I |-> 1, J |-> 8, K |-> 5, L |-> 1, M |-> 3, N |-> 1, O |-> 1, P |-> 3,
       Q |-> 10, R |-> 1, S |-> 1, T |-> 1, U |-> 1, V |-> 4, W |-> 4, X |-> 8,
       Y |-> 4, Z |-> 10]

\* BOARD_TEMPLATE: the four lists of premium squares
TWS == {<<0,0>>, <<0,7>>, <<0,14>>, <<7,0>>, <<7,14>>, <<14,0>>, <<14,7>>, <<14,14>>}
DWS == {<<1,1>>, <<2,2>>, <<3,3>>, <<4,4>>, <<1,13>>, <<2,12>>, <<3,11>>, <<4,10>>,
        <<13,1>>, <<12,2>>, <<11,3>>, <<10,4>>, <<13,13>>, <<12,12>>, <<11,11>>,
        <<10,10>>, <<7,7>>}
TLS == {<<1,5>>, <<1,9>>, <<5,1>>, <<5,5>>, <<5,9>>, <<5,13>>, <<9,1>>, <<9,5>>,
        <<9,9>>, <<9,13>>, <<13,5>>, <<13,9>>}
DLS == {<<0,3>>, <<0,11>>, <<2,6>>, <<2,8>>, <<3,0>>, <<3,7>>, <<3,14>>, <<6,2>>,
        <<6,6>>, <<6,8>>, <<6,12>>, <<7,3>>, <<7,11>>, <<8,2>>, <<8,6>>, <<8,8>>,
        <<8,12>>, <<11,0>>, <<11,7>>, <<11,14>>, <<12,6>>, <<12,8>>, <<14,3>>,
        <<14,11>>}

\* The template is filled TW, DW, TL, DL in this order, a later list overwriting.
BOARD_TEMPLATE ==
    [r \in Idx |-> [c \in Idx |->
        IF <<r, c>> \in DLS THEN "DL"
        ELSE IF <<r, c>> \in TLS THEN "TL"
        ELSE IF <<r, c>> \in DWS THEN "DW"
        ELSE IF <<r, c>> \in TWS THEN "TW"
        ELSE "."]]

\* ---------------------------------------------------------------- lexicon

Alphabet == <<"A","B","C","D","E","F","G","H","I","J","K","L","M","N","O","P","Q",
              "R","S","T","U","V","W","X","Y","Z">>
Letters == {Alphabet[i] : i \in 1 .. Len(Alphabet)}
LetterOrd(l) == CHOOSE i \in 1 .. Len(Alphabet) : Alphabet[i] = l

\* a.localeCompare(b) < 0 for words of upper-case letters
RECURSIVE LexLess(_, _)
LexLess(a, b) ==
    IF a = <<>> THEN b # <<>>
    ELSE IF b = <<>> THEN FALSE
    ELSE IF Head(a) # Head(b) THEN LetterOrd(Head(a)) < LetterOrd(Head(b))
    ELSE LexLess(Tail(a), Tail(b))

\* the comparator of WORD_LIST's sort: a.length - b.length || a.localeCompare(b)
WordBefore(a, b) == Len(a) < Len(b) \/ (Len(a) = Len(b) /\ LexLess(a, b))

\* [...WORD_SET].sort(...)
WORD_LIST ==
    LET n == Cardinality(WORD_SET)
    IN  [i \in 1 .. n |->
            CHOOSE w \in WORD_SET :
                Cardinality({v \in WORD_SET : WordBefore(v, w)}) = i - 1]

EmptyBoard == [r \in Idx |-> [c \in Idx |-> NULL]]

Range(s) == {s[i] : i \in 1 .. Len(s)}

\* ------------------------------------------------------------- dictionary load

\* A line of the dictionary file is a sequence of characters (UTF-16 code units).
\* A character is written as a one-character string when it is a printable ASCII
\* character, a blank or one of the escapes \t, \n, \f, \r, else by its code
\* point, "U+" and four hexadecimal digits ("U+00A0" is the no-break space).

\* the characters String.prototype.trim removes: the WhiteSpace and the
\* LineTerminator characters of ECMAScript (tab, line feed, vertical tab, form
\* feed, carriage return, blank, no-break space, the space separators of
\* Unicode, line and paragraph separator, byte order mark)
WhiteSpace ==
    {" ", "\t", "\n", "\f", "\r",
     "U+0009", "U+000A", "U+000B", "U+000C", "U+000D", "U+0020", "U+00A0", "U+1680",
     "U+2000", "U+2001", "U+2002", "U+2003", "U+2004", "U+2005", "U+2006", "U+2007",
     "U+2008", "U+2009", "U+200A", "U+2028", "U+2029", "U+202F", "U+205F", "U+3000",
     "U+FEFF"}

\* the upper case of the characters String.prototype.toUpperCase changes (the
\* default case conversion of Unicode, special casing included): for a character of
\* the basic plane, the character and the characters it becomes
UpperCase ==
    <<<<"a", <<"A">>>>, <<"b", <<"B">>>>, <<"c", <<"C">>>>, <<"d", <<"D">>>>, <<"e", <<"E">>>>,
      <<"f", <<"F">>>>, <<"g", <<"G">>>>, <<"h", <<"H">>>>, <<"i", <<"I">>>>, <<"j", <<"J">>>>,
      <<"k", <<"K">>>>, <<"l", <<"L">>>>, <<"m", <<"M">>>>, <<"n", <<"N">>>>, <<"o", <<"O">>>>,
      <<"p", <<"P">>>>, <<"q", <<"Q">>>>, <<"r", <<"R">>>>, <<"s", <<"S">>>>, <<"t", <<"T">>>>,
      <<"u", <<"U">>>>, <<"v", <<"V">>>>, <<"w", <<"W">>>>, <<"x", <<"X">>>>, <<"y", <<"Y">>>>,
      <<"z", <<"Z">>>>, <<"U+00B5", <<"U+039C">>>>, <<"U+00DF", <<"S", "S">>>>,
      <<"U+00E0", <<"U+00C0">>>>, <<"U+00E1", <<"U+00C1">>>>, <<"U+00E2", <<"U+00C2">>>>,
      <<"U+00E3", <<"U+00C3">>>>, <<"U+00E4", <<"U+00C4">>>>, <<"U+00E5", <<"U+00C5">>>>,
      <<"U+00E6", <<"U+00C6">>>>, <<"U+00E7", <<"U+00C7">>>>, <<"U+00E8", <<"U+00C8">>>>,
      <<"U+00E9", <<"U+00C9">>>>, <<"U+00EA", <<"U+00CA">>>>, <<"U+00EB", <<"U+00CB">>>>,
      <<"U+00EC", <<"U+00CC">>>>, <<"U+00ED", <<"U+00CD">>>>, <<"U+00EE", <<"U+00CE">>>>,
      <<"U+00EF", <<"U+00CF">>>>, <<"U+00F0", <<"U+00D0">>>>, <<"U+00F1", <<"U+00D1">>>>,
      <<"U+00F2", <<"U+00D2">>>>, <<"U+00F3", <<"U+00D3">>>>, <<"U+00F4", <<"U+00D4">>>>,
      <<"U+00F5", <<"U+00D5">>>>, <<"U+00F6", <<"U+00D6">>>>, <<"U+00F8", <<"U+00D8">>>>,
      <<"U+00F9", <<"U+00D9">>>>, <<"U+00FA", <<"U+00DA">>>>, <<"U+00FB", <<"U+00DB">>>>,
      <<"U+00FC", <<"U+00DC">>>>, <<"U+00FD", <<"U+00DD">>>>, <<"U+00FE", <<"U+00DE">>>>,
      <<"U+00FF", <<"U+0178">>>>, <<"U+0101", <<"U+0100">>>>, <<"U+0103", <<"U+0102">>>>,
      <<"U+0105", <<"U+0104">>>>, <<"U+0107", <<"U+0106">>>>, <<"U+0109", <<"U+0108">>>>,
      <<"U+010B", <<"U+010A">>>>, <<"U+010D", <<"U+010C">>>>, <<"U+010F", <<"U+010E">>>>,
      <<"U+0111", <<"U+0110">>>>, <<"U+0113", <<"U+0112">>>>, <<"U+0115", <<"U+0114">>>>,
      <<"U+0117", <<"U+0116">>>>, <<"U+0119", <<"U+0118">>>>, <<"U+011B", <<"U+011A">>>>,
      <<"U+011D", <<"U+011C">>>>, <<"U+011F", <<"U+011E">>>>, <<"U+0121", <<"U+0120">>>>,
      <<"U+0123", <<"U+0122">>>>, <<"U+0125", <<"U+0124">>>>, <<"U+0127", <<"U+0126">>>>,
      <<"U+0129", <<"U+0128">>>>, <<"U+012B", <<"U+012A">>>>, <<"U+012D", <<"U+012C">>>>,
      <<"U+012F", <<"U+012E">>>>, <<"U+0131", <<"I">>>>, <<"U+0133", <<"U+0132">>>>,
      <<"U+0135", <<"U+0134">>>>, <<"U+0137", <<"U+0136">>>>, <<"U+013A", <<"U+0139">>>>,
      <<"U+013C", <<"U+013B">>>>, <<"U+013E", <<"U+013D">>>>, <<"U+0140", <<"U+013F">>>>,
      <<"U+0142", <<"U+0141">>>>, <<"U+0144", <<"U+0143">>>>, <<"U+0146", <<"U+0145">>>>,
      <<"U+0148", <<"U+0147">>>>, <<"U+0149", <<"U+02BC", "N">>>>, <<"U+014B", <<"U+014A">>>>,
      <<"U+014D", <<"U+014C">>>>, <<"U+014F", <<"U+014E">>>>, <<"U+0151", <<"U+0150">>>>,
      <<"U+0153", <<"U+0152">>>>, <<"U+0155", <<"U+0154">>>>, <<"U+0157", <<"U+0156">>>>,
      <<"U+0159", <<"U+0158">>>>, <<"U+015B", <<"U+015A">>>>, <<"U+015D", <<"U+015C">>>>,
      <<"U+015F", <<"U+015E">>>>, <<"U+0161", <<"U+0160">>>>, <<"U+0163", <<"U+0162">>>>,
      <<"U+0165", <<"U+0164">>>>, <<"U+0167", <<"U+0166">>>>, <<"U+0169", <<"U+0168">>>>,
      <<"U+016B", <<"U+016A">>>>, <<"U+016D", <<"U+016C">>>>, <<"U+016F", <<"U+016E">>>>,
      <<"U+0171", <<"U+0170">>>>, <<"U+0173", <<"U+0172">>>>, <<"U+0175", <<"U+0174">>>>,
      <<"U+0177", <<"U+0176">>>>, <<"U+017A", <<"U+0179">>>>, <<"U+017C", <<"U+017B">>>>,
      <<"U+017E", <<"U+017D">>>>, <<"U+017F", <<"S">>>>, <<"U+0180", <<"U+0243">>>>,
      <<"U+0183", <<"U+0182">>>>, <<"U+0185", <<"U+0184">>>>, <<"U+0188", <<"U+0187">>>>,
      <<"U+018C", <<"U+018B">>>>, <<"U+0192", <<"U+0191">>>>, <<"U+0195", <<"U+01F6">>>>,
      <<"U+0199", <<"U+0198">>>>, <<"U+019A", <<"U+023D">>>>, <<"U+019B", <<"U+A7DC">>>>,
      <<"U+019E", <<"U+0220">>>>, <<"U+01A1", <<"U+01A0">>>>, <<"U+01A3", <<"U+01A2">>>>,
      <<"U+01A5", <<"U+01A4">>>>, <<"U+01A8", <<"U+01A7">>>>, <<"U+01AD", <<"U+01AC">>>>,
      <<"U+01B0", <<"U+01AF">>>>, <<"U+01B4", <<"U+01B3">>>>, <<"U+01B6", <<"U+01B5">>>>,
      <<"U+01B9", <<"U+01B8">>>>, <<"U+01BD", <<"U+01BC">>>>, <<"U+01BF", <<"U+01F7">>>>,
      <<"U+01C5", <<"U+01C4">>>>, <<"U+01C6", <<"U+01C4">>>>, <<"U+01C8", <<"U+01C7">>>>,
      <<"U+01C9", <<"U+01C7">>>>, <<"U+01CB", <<"U+01CA">>>>, <<"U+01CC", <<"U+01CA">>>>,
      <<"U+01CE", <<"U+01CD">>>>, <<"U+01D0", <<"U+01CF">>>>, <<"U+01D2", <<"U+01D1">>>>,
      <<"U+01D4", <<"U+01D3">>>>, <<"U+01D6", <<"U+01D5">>>>, <<"U+01D8", <<"U+01D7">>>>,
      <<"U+01DA", <<"U+01D9">>>>, <<"U+01DC", <<"U+01DB">>>>, <<"U+01DD", <<"U+018E">>>>,
      <<"U+01DF", <<"U+01DE">>>>, <<"U+01E1", <<"U+01E0">>>>, <<"U+01E3", <<"U+01E2">>>>,
      <<"U+01E5", <<"U+01E4">>>>, <<"U+01E7", <<"U+01E6">>>>, <<"U+01E9", <<"U+01E8">>>>,
      <<"U+01EB", <<"U+01EA">>>>, <<"U+01ED", <<"U+01EC">>>>, <<"U+01EF", <<"U+01EE">>>>,
      <<"U+01F0", <<"J", "U+030C">>>>, <<"U+01F2", <<"U+01F1">>>>, <<"U+01F3", <<"U+01F1">>>>,
      <<"U+01F5", <<"U+01F4">>>>, <<"U+01F9", <<"U+01F8">>>>, <<"U+01FB", <<"U+01FA">>>>,
      <<"U+01FD", <<"U+01FC">>>>, <<"U+01FF", <<"U+01FE">>>>, <<"U+0201", <<"U+0200">>>>,
      <<"U+0203", <<"U+0202">>>>, <<"U+0205", <<"U+0204">>>>, <<"U+0207", <<"U+0206">>>>,
      <<"U+0209", <<"U+0208">>>>, <<"U+020B", <<"U+020A">>>>, <<"U+020D", <<"U+020C">>>>,
      <<"U+020F", <<"U+020E">>>>, <<"U+0211", <<"U+0210">>>>, <<"U+0213", <<"U+0212">>>>,
      <<"U+0215", <<"U+0214">>>>, <<"U+0217", <<"U+0216">>>>, <<"U+0219", <<"U+0218">>>>,
      <<"U+021B", <<"U+021A">>>>, <<"U+021D", <<"U+021C">>>>, <<"U+021F", <<"U+021E">>>>,
      <<"U+0223", <<"U+0222">>>>, <<"U+0225", <<"U+0224">>>>, <<"U+0227", <<"U+0226">>>>,
      <<"U+0229", <<"U+0228">>>>, <<"U+022B", <<"U+022A">>>>, <<"U+022D", <<"U+022C">>>>,
      <<"U+022F", <<"U+022E">>>>, <<"U+0231", <<"U+0230">>>>, <<"U+0233", <<"U+0232">>>>,
      <<"U+023C", <<"U+023B">>>>, <<"U+023F", <<"U+2C7E">>>>, <<"U+0240", <<"U+2C7F">>>>,
      <<"U+0242", <<"U+0241">>>>, <<"U+0247", <<"U+0246">>>>, <<"U+0249", <<"U+0248">>>>,
      <<"U+024B", <<"U+024A">>>>, <<"U+024D", <<"U+024C">>>>, <<"U+024F", <<"U+024E">>>>,
      <<"U+0250", <<"U+2C6F">>>>, <<"U+0251", <<"U+2C6D">>>>, <<"U+0252", <<"U+2C70">>>>,
      <<"U+0253", <<"U+0181">>>>, <<"U+0254", <<"U+0186">>>>, <<"U+0256", <<"U+0189">>>>,
      <<"U+0257", <<"U+018A">>>>, <<"U+0259", <<"U+018F">>>>, <<"U+025B", <<"U+0190">>>>,
      <<"U+025C", <<"U+A7AB">>>>, <<"U+0260", <<"U+0193">>>>, <<"U+0261", <<"U+A7AC">>>>,
      <<"U+0263", <<"U+0194">>>>, <<"U+0264", <<"U+A7CB">>>>, <<"U+0265", <<"U+A78D">>>>,
      <<"U+0266", <<"U+A7AA">>>>, <<"U+0268", <<"U+0197">>>>, <<"U+0269", <<"U+0196">>>>,
      <<"U+026A", <<"U+A7AE">>>>, <<"U+026B", <<"U+2C62">>>>, <<"U+026C", <<"U+A7AD">>>>,
      <<"U+026F", <<"U+019C">>>>, <<"U+0271", <<"U+2C6E">>>>, <<"U+0272", <<"U+019D">>>>,
      <<"U+0275", <<"U+019F">>>>, <<"U+027D", <<"U+2C64">>>>, <<"U+0280", <<"U+01A6">>>>,
      <<"U+0282", <<"U+A7C5">>>>, <<"U+0283", <<"U+01A9">>>>, <<"U+0287", <<"U+A7B1">>>>,
      <<"U+0288", <<"U+01AE">>>>, <<"U+0289", <<"U+0244">>>>, <<"U+028A", <<"U+01B1">>>>,
      <<"U+028B", <<"U+01B2">>>>, <<"U+028C", <<"U+0245">>>>, <<"U+0292", <<"U+01B7">>>>,
      <<"U+029D", <<"U+A7B2">>>>, <<"U+029E", <<"U+A7B0">>>>, <<"U+0345", <<"U+0399">>>>,
      <<"U+0371", <<"U+0370">>>>, <<"U+0373", <<"U+0372">>>>, <<"U+0377", <<"U+0376">>>>,
      <<"U+037B", <<"U+03FD">>>>, <<"U+037C", <<"U+03FE">>>>, <<"U+037D", <<"U+03FF">>>>,
      <<"U+0390", <<"U+0399", "U+0308", "U+0301">>>>, <<"U+03AC", <<"U+0386">>>>,
      <<"U+03AD", <<"U+0388">>>>, <<"U+03AE", <<"U+0389">>>>, <<"U+03AF", <<"U+038A">>>>,
      <<"U+03B0", <<"U+03A5", "U+0308", "U+0301">>>>, <<"U+03B1", <<"U+0391">>>>,
      <<"U+03B2", <<"U+0392">>>>, <<"U+03B3", <<"U+0393">>>>, <<"U+03B4", <<"U+0394">>>>,
      <<"U+03B5", <<"U+0395">>>>, <<"U+03B6", <<"U+0396">>>>, <<"U+03B7", <<"U+0397">>>>,
      <<"U+03B8", <<"U+0398">>>>, <<"U+03B9", <<"U+0399">>>>, <<"U+03BA", <<"U+039A">>>>,
      <<"U+03BB", <<"U+039B">>>>, <<"U+03BC", <<"U+039C">>>>, <<"U+03BD", <<"U+039D">>>>,
      <<"U+03BE", <<"U+039E">>>>, <<"U+03BF", <<"U+039F">>>>, <<"U+03C0", <<"U+03A0">>>>,
      <<"U+03C1", <<"U+03A1">>>>, <<"U+03C2", <<"U+03A3">>>>, <<"U+03C3", <<"U+03A3">>>>,
      <<"U+03C4", <<"U+03A4">>>>, <<"U+03C5", <<"U+03A5">>>>, <<"U+03C6", <<"U+03A6">>>>,
      <<"U+03C7", <<"U+03A7">>>>, <<"U+03C8", <<"U+03A8">>>>, <<"U+03C9", <<"U+03A9">>>>,
      <<"U+03CA", <<"U+03AA">>>>, <<"U+03CB", <<"U+03AB">>>>, <<"U+03CC", <<"U+038C">>>>,
      <<"U+03CD", <<"U+038E">>>>, <<"U+03CE", <<"U+038F">>>>, <<"U+03D0", <<"U+0392">>>>,
      <<"U+03D1", <<"U+0398">>>>, <<"U+03D5", <<"U+03A6">>>>, <<"U+03D6", <<"U+03A0">>>>,
      <<"U+03D7", <<"U+03CF">>>>, <<"U+03D9", <<"U+03D8">>>>, <<"U+03DB", <<"U+03DA">>>>,
      <<"U+03DD", <<"U+03DC">>>>, <<"U+03DF", <<"U+03DE">>>>, <<"U+03E1", <<"U+03E0">>>>,
      <<"U+03E3", <<"U+03E2">>>>, <<"U+03E5", <<"U+03E4">>>>, <<"U+03E7", <<"U+03E6">>>>,
      <<"U+03E9", <<"U+03E8">>>>, <<"U+03EB", <<"U+03EA">>>>, <<"U+03ED", <<"U+03EC">>>>,
      <<"U+03EF", <<"U+03EE">>>>, <<"U+03F0", <<"U+039A">>>>, <<"U+03F1", <<"U+03A1">>>>,
      <<"U+03F2", <<"U+03F9">>>>, <<"U+03F3", <<"U+037F">>>>, <<"U+03F5", <<"U+0395">>>>,
      <<"U+03F8", <<"U+03F7">>>>, <<"U+03FB", <<"U+03FA">>>>, <<"U+0430", <<"U+0410">>>>,
      <<"U+0431", <<"U+0411">>>>, <<"U+0432", <<"U+0412">>>>, <<"U+0433", <<"U+0413">>>>,
      <<"U+0434", <<"U+0414">>>>, <<"U+0435", <<"U+0415">>>>, <<"U+0436", <<"U+0416">>>>,
      <<"U+0437", <<"U+0417">>>>, <<"U+0438", <<"U+0418">>>>, <<"U+0439", <<"U+0419">>>>,
      <<"U+043A", <<"U+041A">>>>, <<"U+043B", <<"U+041B">>>>, <<"U+043C", <<"U+041C">>>>,
      <<"U+043D", <<"U+041D">>>>, <<"U+043E", <<"U+041E">>>>, <<"U+043F", <<"U+041F">>>>,
      <<"U+0440", <<"U+0420">>>>, <<"U+0441", <<"U+0421">>>>, <<"U+0442", <<"U+0422">>>>,
      <<"U+0443", <<"U+0423">>>>, <<"U+0444", <<"U+0424">>>>, <<"U+0445", <<"U+0425">>>>,
      <<"U+0446", <<"U+0426">>>>, <<"U+0447", <<"U+0427">>>>, <<"U+0448", <<"U+0428">>>>,
      <<"U+0449", <<"U+0429">>>>, <<"U+044A", <<"U+042A">>>>, <<"U+044B", <<"U+042B">>>>,
      <<"U+044C", <<"U+042C">>>>, <<"U+044D", <<"U+042D">>>>, <<"U+044E", <<"U+042E">>>>,
      <<"U+044F", <<"U+042F">>>>, <<"U+0450", <<"U+0400">>>>, <<"U+0451", <<"U+0401">>>>,
      <<"U+0452", <<"U+0402">>>>, <<"U+0453", <<"U+0403">>>>, <<"U+0454", <<"U+0404">>>>,
      <<"U+0455", <<"U+0405">>>>, <<"U+0456", <<"U+0406">>>>, <<"U+0457", <<"U+0407">>>>,
      <<"U+0458", <<"U+0408">>>>, <<"U+0459", <<"U+0409">>>>, <<"U+045A", <<"U+040A">>>>,
      <<"U+045B", <<"U+040B">>>>, <<"U+045C", <<"U+040C">>>>, <<"U+045D", <<"U+040D">>>>,
      <<"U+045E", <<"U+040E">>>>, <<"U+045F", <<"U+040F">>>>, <<"U+0461", <<"U+0460">>>>,
      <<"U+0463", <<"U+0462">>>>, <<"U+0465", <<"U+0464">>>>, <<"U+0467", <<"U+0466">>>>,
      <<"U+0469", <<"U+0468">>>>, <<"U+046B", <<"U+046A">>>>, <<"U+046D", <<"U+046C">>>>,
      <<"U+046F", <<"U+046E">>>>, <<"U+0471", <<"U+0470">>>>, <<"U+0473", <<"U+0472">>>>,
      <<"U+0475", <<"U+0474">>>>, <<"U+0477", <<"U+0476">>>>, <<"U+0479", <<"U+0478">>>>,
      <<"U+047B", <<"U+047A">>>>, <<"U+047D", <<"U+047C">>>>, <<"U+047F", <<"U+047E">>>>,
      <<"U+0481", <<"U+0480">>>>, <<"U+048B", <<"U+048A">>>>, <<"U+048D", <<"U+048C">>>>,
      <<"U+048F", <<"U+048E">>>>, <<"U+0491", <<"U+0490">>>>, <<"U+0493", <<"U+0492">>>>,
      <<"U+0495", <<"U+0494">>>>, <<"U+0497", <<"U+0496">>>>, <<"U+0499", <<"U+0498">>>>,
      <<"U+049B", <<"U+049A">>>>, <<"U+049D", <<"U+049C">>>>, <<"U+049F", <<"U+049E">>>>,
      <<"U+04A1", <<"U+04A0">>>>, <<"U+04A3", <<"U+04A2">>>>, <<"U+04A5", <<"U+04A4">>>>,
      <<"U+04A7", <<"U+04A6">>>>, <<"U+04A9", <<"U+04A8">>>>, <<"U+04AB", <<"U+04AA">>>>,
      <<"U+04AD", <<"U+04AC">>>>, <<"U+04AF", <<"U+04AE">>>>, <<"U+04B1", <<"U+04B0">>>>,
      <<"U+04B3", <<"U+04B2">>>>, <<"U+04B5", <<"U+04B4">>>>, <<"U+04B7", <<"U+04B6">>>>,
      <<"U+04B9", <<"U+04B8">>>>, <<"U+04BB", <<"U+04BA">>>>, <<"U+04BD", <<"U+04BC">>>>,
      <<"U+04BF", <<"U+04BE">>>>, <<"U+04C2", <<"U+04C1">>>>, <<"U+04C4", <<"U+04C3">>>>,
      <<"U+04C6", <<"U+04C5">>>>, <<"U+04C8", <<"U+04C7">>>>, <<"U+04CA", <<"U+04C9">>>>,
      <<"U+04CC", <<"U+04CB">>>>, <<"U+04CE", <<"U+04CD">>>>, <<"U+04CF", <<"U+04C0">>>>,
      <<"U+04D1", <<"U+04D0">>>>, <<"U+04D3", <<"U+04D2">>>>, <<"U+04D5", <<"U+04D4">>>>,
      <<"U+04D7", <<"U+04D6">>>>, <<"U+04D9", <<"U+04D8">>>>, <<"U+04DB", <<"U+04DA">>>>,
      <<"U+04DD", <<"U+04DC">>>>, <<"U+04DF", <<"U+04DE">>>>, <<"U+04E1", <<"U+04E0">>>>,
      <<"U+04E3", <<"U+04E2">>>>, <<"U+04E5", <<"U+04E4">>>>, <<"U+04E7", <<"U+04E6">>>>,
      <<"U+04E9", <<"U+04E8">>>>, <<"U+04EB", <<"U+04EA">>>>, <<"U+04ED", <<"U+04EC">>>>,
      <<"U+04EF", <<"U+04EE">>>>, <<"U+04F1", <<"U+04F0">>>>, <<"U+04F3", <<"U+04F2">>>>,
      <<"U+04F5", <<"U+04F4">>>>, <<"U+04F7", <<"U+04F6">>>>, <<"U+04F9", <<"U+04F8">>>>,
      <<"U+04FB", <<"U+04FA">>>>, <<"U+04FD", <<"U+04FC">>>>, <<"U+04FF", <<"U+04FE">>>>,
      <<"U+0501", <<"U+0500">>>>, <<"U+0503", <<"U+0502">>>>, <<"U+0505", <<"U+0504">>>>,
      <<"U+0507", <<"U+0506">>>>, <<"U+0509", <<"U+0508">>>>, <<"U+050B", <<"U+050A">>>>,
      <<"U+050D", <<"U+050C">>>>, <<"U+050F", <<"U+050E">>>>, <<"U+0511", <<"U+0510">>>>,
      <<"U+0513", <<"U+0512">>>>, <<"U+0515", <<"U+0514">>>>, <<"U+0517", <<"U+0516">>>>,
      <<"U+0519", <<"U+0518">>>>, <<"U+051B", <<"U+051A">>>>, <<"U+051D", <<"U+051C">>>>,
      <<"U+051F", <<"U+051E">>>>, <<"U+0521", <<"U+0520">>>>, <<"U+0523", <<"U+0522">>>>,
      <<"U+0525", <<"U+0524">>>>, <<"U+0527", <<"U+0526">>>>, <<"U+0529", <<"U+0528">>>>,
      <<"U+052B", <<"U+052A">>>>, <<"U+052D", <<"U+052C">>>>, <<"U+052F", <<"U+052E">>>>,
      <<"U+0561", <<"U+0531">>>>, <<"U+0562", <<"U+0532">>>>, <<"U+0563", <<"U+0533">>>>,
      <<"U+0564", <<"U+0534">>>>, <<"U+0565", <<"U+0535">>>>, <<"U+0566", <<"U+0536">>>>,
      <<"U+0567", <<"U+0537">>>>, <<"U+0568", <<"U+0538">>>>, <<"U+0569", <<"U+0539">>>>,
      <<"U+056A", <<"U+053A">>>>, <<"U+056B", <<"U+053B">>>>, <<"U+056C", <<"U+053C">>>>,
      <<"U+056D", <<"U+053D">>>>, <<"U+056E", <<"U+053E">>>>, <<"U+056F", <<"U+053F">>>>,
      <<"U+0570", <<"U+0540">>>>, <<"U+0571", <<"U+0541">>>>, <<"U+0572", <<"U+0542">>>>,
      <<"U+0573", <<"U+0543">>>>, <<"U+0574", <<"U+0544">>>>, <<"U+0575", <<"U+0545">>>>,
      <<"U+0576", <<"U+0546">>>>, <<"U+0577", <<"U+0547">>>>, <<"U+0578", <<"U+0548">>>>,
      <<"U+0579", <<"U+0549">>>>, <<"U+057A", <<"U+054A">>>>, <<"U+057B", <<"U+054B">>>>,
      <<"U+057C", <<"U+054C">>>>, <<"U+057D", <<"U+054D">>>>, <<"U+057E", <<"U+054E">>>>,
      <<"U+057F", <<"U+054F">>>>, <<"U+0580", <<"U+0550">>>>, <<"U+0581", <<"U+0551">>>>,
      <<"U+0582", <<"U+0552">>>>, <<"U+0583", <<"U+0553">>>>, <<"U+0584", <<"U+0554">>>>,
      <<"U+0585", <<"U+0555">>>>, <<"U+0586", <<"U+0556">>>>,
      <<"U+0587", <<"U+0535", "U+0552">>>>, <<"U+10D0", <<"U+1C90">>>>,
      <<"U+10D1", <<"U+1C91">>>>, <<"U+10D2", <<"U+1C92">>>>, <<"U+10D3", <<"U+1C93">>>>,
      <<"U+10D4", <<"U+1C94">>>>, <<"U+10D5", <<"U+1C95">>>>, <<"U+10D6", <<"U+1C96">>>>,
      <<"U+10D7", <<"U+1C97">>>>, <<"U+10D8", <<"U+1C98">>>>, <<"U+10D9", <<"U+1C99">>>>,
      <<"U+10DA", <<"U+1C9A">>>>, <<"U+10DB", <<"U+1C9B">>>>, <<"U+10DC", <<"U+1C9C">>>>,
      <<"U+10DD", <<"U+1C9D">>>>, <<"U+10DE", <<"U+1C9E">>>>, <<"U+10DF", <<"U+1C9F">>>>,
      <<"U+10E0", <<"U+1CA0">>>>, <<"U+10E1", <<"U+1CA1">>>>, <<"U+10E2", <<"U+1CA2">>>>,
      <<"U+10E3", <<"U+1CA3">>>>, <<"U+10E4", <<"U+1CA4">>>>, <<"U+10E5", <<"U+1CA5">>>>,
      <<"U+10E6", <<"U+1CA6">>>>, <<"U+10E7", <<"U+1CA7">>>>, <<"U+10E8", <<"U+1CA8">>>>,
      <<"U+10E9", <<"U+1CA9">>>>, <<"U+10EA", <<"U+1CAA">>>>, <<"U+10EB", <<"U+1CAB">>>>,
      <<"U+10EC", <<"U+1CAC">>>>, <<"U+10ED", <<"U+1CAD">>>>, <<"U+10EE", <<"U+1CAE">>>>,
      <<"U+10EF", <<"U+1CAF">>>>, <<"U+10F0", <<"U+1CB0">>>>, <<"U+10F1", <<"U+1CB1">>>>,
      <<"U+10F2", <<"U+1CB2">>>>, <<"U+10F3", <<"U+1CB3">>>>, <<"U+10F4", <<"U+1CB4">>>>,
      <<"U+10F5", <<"U+1CB5">>>>, <<"U+10F6", <<"U+1CB6">>>>, <<"U+10F7", <<"U+1CB7">>>>,
      <<"U+10F8", <<"U+1CB8">>>>, <<"U+10F9", <<"U+1CB9">>>>, <<"U+10FA", <<"U+1CBA">>>>,
      <<"U+10FD", <<"U+1CBD">>>>, <<"U+10FE", <<"U+1CBE">>>>, <<"U+10FF", <<"U+1CBF">>>>,
      <<"U+13F8", <<"U+13F0">>>>, <<"U+13F9", <<"U+13F1">>>>, <<"U+13FA", <<"U+13F2">>>>,
      <<"U+13FB", <<"U+13F3">>>>, <<"U+13FC", <<"U+13F4">>>>, <<"U+13FD", <<"U+13F5">>>>,
      <<"U+1C80", <<"U+0412">>>>, <<"U+1C81", <<"U+0414">>>>, <<"U+1C82", <<"U+041E">>>>,
      <<"U+1C83", <<"U+0421">>>>, <<"U+1C84", <<"U+0422">>>>, <<"U+1C85", <<"U+0422">>>>,
      <<"U+1C86", <<"U+042A">>>>, <<"U+1C87", <<"U+0462">>>>, <<"U+1C88", <<"U+A64A">>>>,
      <<"U+1C8A", <<"U+1C89">>>>, <<"U+1D79", <<"U+A77D">>>>, <<"U+1D7D", <<"U+2C63">>>>,
      <<"U+1D8E", <<"U+A7C6">>>>, <<"U+1E01", <<"U+1E00">>>>, <<"U+1E03", <<"U+1E02">>>>,
      <<"U+1E05", <<"U+1E04">>>>, <<"U+1E07", <<"U+1E06">>>>, <<"U+1E09", <<"U+1E08">>>>,
      <<"U+1E0B", <<"U+1E0A">>>>, <<"U+1E0D", <<"U+1E0C">>>>, <<"U+1E0F", <<"U+1E0E">>>>,
      <<"U+1E11", <<"U+1E10">>>>, <<"U+1E13", <<"U+1E12">>>>, <<"U+1E15", <<"U+1E14">>>>,
      <<"U+1E17", <<"U+1E16">>>>, <<"U+1E19", <<"U+1E18">>>>, <<"U+1E1B", <<"U+1E1A">>>>,
      <<"U+1E1D", <<"U+1E1C">>>>, <<"U+1E1F", <<"U+1E1E">>>>, <<"U+1E21", <<"U+1E20">>>>,
      <<"U+1E23", <<"U+1E22">>>>, <<"U+1E25", <<"U+1E24">>>>, <<"U+1E27", <<"U+1E26">>>>,
      <<"U+1E29", <<"U+1E28">>>>, <<"U+1E2B", <<"U+1E2A">>>>, <<"U+1E2D", <<"U+1E2C">>>>,
      <<"U+1E2F", <<"U+1E2E">>>>, <<"U+1E31", <<"U+1E30">>>>, <<"U+1E33", <<"U+1E32">>>>,
      <<"U+1E35", <<"U+1E34">>>>, <<"U+1E37", <<"U+1E36">>>>, <<"U+1E39", <<"U+1E38">>>>,
      <<"U+1E3B", <<"U+1E3A">>>>, <<"U+1E3D", <<"U+1E3C">>>>, <<"U+1E3F", <<"U+1E3E">>>>,
      <<"U+1E41", <<"U+1E40">>>>, <<"U+1E43", <<"U+1E42">>>>, <<"U+1E45", <<"U+1E44">>>>,
      <<"U+1E47", <<"U+1E46">>>>, <<"U+1E49", <<"U+1E48">>>>, <<"U+1E4B", <<"U+1E4A">>>>,
      <<"U+1E4D", <<"U+1E4C">>>>, <<"U+1E4F", <<"U+1E4E">>>>, <<"U+1E51", <<"U+1E50">>>>,
      <<"U+1E53", <<"U+1E52">>>>, <<"U+1E55", <<"U+1E54">>>>, <<"U+1E57", <<"U+1E56">>>>,
      <<"U+1E59", <<"U+1E58">>>>, <<"U+1E5B", <<"U+1E5A">>>>, <<"U+1E5D", <<"U+1E5C">>>>,
      <<"U+1E5F", <<"U+1E5E">>>>, <<"U+1E61", <<"U+1E60">>>>, <<"U+1E63", <<"U+1E62">>>>,
      <<"U+1E65", <<"U+1E64">>>>, <<"U+1E67", <<"U+1E66">>>>, <<"U+1E69", <<"U+1E68">>>>,
      <<"U+1E6B", <<"U+1E6A">>>>, <<"U+1E6D", <<"U+1E6C">>>>, <<"U+1E6F", <<"U+1E6E">>>>,
      <<"U+1E71", <<"U+1E70">>>>, <<"U+1E73", <<"U+1E72">>>>, <<"U+1E75", <<"U+1E74">>>>,
      <<"U+1E77", <<"U+1E76">>>>, <<"U+1E79", <<"U+1E78">>>>, <<"U+1E7B", <<"U+1E7A">>>>,
      <<"U+1E7D", <<"U+1E7C">>>>, <<"U+1E7F", <<"U+1E7E">>>>, <<"U+1E81", <<"U+1E80">>>>,
      <<"U+1E83", <<"U+1E82">>>>, <<"U+1E85", <<"U+1E84">>>>, <<"U+1E87", <<"U+1E86">>>>,
      <<"U+1E89", <<"U+1E88">>>>, <<"U+1E8B", <<"U+1E8A">>>>, <<"U+1E8D", <<"U+1E8C">>>>,
      <<"U+1E8F", <<"U+1E8E">>>>, <<"U+1E91", <<"U+1E90">>>>, <<"U+1E93", <<"U+1E92">>>>,
      <<"U+1E95", <<"U+1E94">>>>, <<"U+1E96", <<"H", "U+0331">>>>,
      <<"U+1E97", <<"T", "U+0308">>>>, <<"U+1E98", <<"W", "U+030A">>>>,
      <<"U+1E99", <<"Y", "U+030A">>>>, <<"U+1E9A", <<"A", "U+02BE">>>>,
      <<"U+1E9B", <<"U+1E60">>>>, <<"U+1EA1", <<"U+1EA0">>>>, <<"U+1EA3", <<"U+1EA2">>>>,
      <<"U+1EA5", <<"U+1EA4">>>>, <<"U+1EA7", <<"U+1EA6">>>>, <<"U+1EA9", <<"U+1EA8">>>>,
      <<"U+1EAB", <<"U+1EAA">>>>, <<"U+1EAD", <<"U+1EAC">>>>, <<"U+1EAF", <<"U+1EAE">>>>,
      <<"U+1EB1", <<"U+1EB0">>>>, <<"U+1EB3", <<"U+1EB2">>>>, <<"U+1EB5", <<"U+1EB4">>>>,
      <<"U+1EB7", <<"U+1EB6">>>>, <<"U+1EB9", <<"U+1EB8">>>>, <<"U+1EBB", <<"U+1EBA">>>>,
      <<"U+1EBD", <<"U+1EBC">>>>, <<"U+1EBF", <<"U+1EBE">>>>, <<"U+1EC1", <<"U+1EC0">>>>,
      <<"U+1EC3", <<"U+1EC2">>>>, <<"U+1EC5", <<"U+1EC4">>>>, <<"U+1EC7", <<"U+1EC6">>>>,
      <<"U+1EC9", <<"U+1EC8">>>>, <<"U+1ECB", <<"U+1ECA">>>>, <<"U+1ECD", <<"U+1ECC">>>>,
      <<"U+1ECF", <<"U+1ECE">>>>, <<"U+1ED1", <<"U+1ED0">>>>, <<"U+1ED3", <<"U+1ED2">>>>,
      <<"U+1ED5", <<"U+1ED4">>>>, <<"U+1ED7", <<"U+1ED6">>>>, <<"U+1ED9", <<"U+1ED8">>>>,
      <<"U+1EDB", <<"U+1EDA">>>>, <<"U+1EDD", <<"U+1EDC">>>>, <<"U+1EDF", <<"U+1EDE">>>>,
      <<"U+1EE1", <<"U+1EE0">>>>, <<"U+1EE3", <<"U+1EE2">>>>, <<"U+1EE5", <<"U+1EE4">>>>,
      <<"U+1EE7", <<"U+1EE6">>>>, <<"U+1EE9", <<"U+1EE8">>>>, <<"U+1EEB", <<"U+1EEA">>>>,
      <<"U+1EED", <<"U+1EEC">>>>, <<"U+1EEF", <<"U+1EEE">>>>, <<"U+1EF1", <<"U+1EF0">>>>,
      <<"U+1EF3", <<"U+1EF2">>>>, <<"U+1EF5", <<"U+1EF4">>>>, <<"U+1EF7", <<"U+1EF6">>>>,
      <<"U+1EF9", <<"U+1EF8">>>>, <<"U+1EFB", <<"U+1EFA">>>>, <<"U+1EFD", <<"U+1EFC">>>>,
      <<"U+1EFF", <<"U+1EFE">>>>, <<"U+1F00", <<"U+1F08">>>>, <<"U+1F01", <<"U+1F09">>>>,
      <<"U+1F02", <<"U+1F0A">>>>, <<"U+1F03", <<"U+1F0B">>>>, <<"U+1F04", <<"U+1F0C">>>>,
      <<"U+1F05", <<"U+1F0D">>>>, <<"U+1F06", <<"U+1F0E">>>>, <<"U+1F07", <<"U+1F0F">>>>,
      <<"U+1F10", <<"U+1F18">>>>, <<"U+1F11", <<"U+1F19">>>>, <<"U+1F12", <<"U+1F1A">>>>,
      <<"U+1F13", <<"U+1F1B">>>>, <<"U+1F14", <<"U+1F1C">>>>, <<"U+1F15", <<"U+1F1D">>>>,
      <<"U+1F20", <<"U+1F28">>>>, <<"U+1F21", <<"U+1F29">>>>, <<"U+1F22", <<"U+1F2A">>>>,
      <<"U+1F23", <<"U+1F2B">>>>, <<"U+1F24", <<"U+1F2C">>>>, <<"U+1F25", <<"U+1F2D">>>>,
      <<"U+1F26", <<"U+1F2E">>>>, <<"U+1F27", <<"U+1F2F">>>>, <<"U+1F30", <<"U+1F38">>>>,
      <<"U+1F31", <<"U+1F39">>>>, <<"U+1F32", <<"U+1F3A">>>>, <<"U+1F33", <<"U+1F3B">>>>,
      <<"U+1F34", <<"U+1F3C">>>>, <<"U+1F35", <<"U+1F3D">>>>, <<"U+1F36", <<"U+1F3E">>>>,
      <<"U+1F37", <<"U+1F3F">>>>, <<"U+1F40", <<"U+1F48">>>>, <<"U+1F41", <<"U+1F49">>>>,
      <<"U+1F42", <<"U+1F4A">>>>, <<"U+1F43", <<"U+1F4B">>>>, <<"U+1F44", <<"U+1F4C">>>>,
      <<"U+1F45", <<"U+1F4D">>>>, <<"U+1F50", <<"U+03A5", "U+0313">>>>,
      <<"U+1F51", <<"U+1F59">>>>, <<"U+1F52", <<"U+03A5", "U+0313", "U+0300">>>>,
      <<"U+1F53", <<"U+1F5B">>>>, <<"U+1F54", <<"U+03A5", "U+0313", "U+0301">>>>,
      <<"U+1F55", <<"U+1F5D">>>>, <<"U+1F56", <<"U+03A5", "U+0313", "U+0342">>>>,
      <<"U+1F57", <<"U+1F5F">>>>, <<"U+1F60", <<"U+1F68">>>>, <<"U+1F61", <<"U+1F69">>>>,
      <<"U+1F62", <<"U+1F6A">>>>, <<"U+1F63", <<"U+1F6B">>>>, <<"U+1F64", <<"U+1F6C">>>>,
      <<"U+1F65", <<"U+1F6D">>>>, <<"U+1F66", <<"U+1F6E">>>>, <<"U+1F67", <<"U+1F6F">>>>,
      <<"U+1F70", <<"U+1FBA">>>>, <<"U+1F71", <<"U+1FBB">>>>, <<"U+1F72", <<"U+1FC8">>>>,
      <<"U+1F73", <<"U+1FC9">>>>, <<"U+1F74", <<"U+1FCA">>>>, <<"U+1F75", <<"U+1FCB">>>>,
      <<"U+1F76", <<"U+1FDA">>>>, <<"U+1F77", <<"U+1FDB">>>>, <<"U+1F78", <<"U+1FF8">>>>,
      <<"U+1F79", <<"U+1FF9">>>>, <<"U+1F7A", <<"U+1FEA">>>>, <<"U+1F7B", <<"U+1FEB">>>>,
      <<"U+1F7C", <<"U+1FFA">>>>, <<"U+1F7D", <<"U+1FFB">>>>,
      <<"U+1F80", <<"U+1F08", "U+0399">>>>, <<"U+1F81", <<"U+1F09", "U+0399">>>>,
      <<"U+1F82", <<"U+1F0A", "U+0399">>>>, <<"U+1F83", <<"U+1F0B", "U+0399">>>>,
      <<"U+1F84", <<"U+1F0C", "U+0399">>>>, <<"U+1F85", <<"U+1F0D", "U+0399">>>>,
      <<"U+1F86", <<"U+1F0E", "U+0399">>>>, <<"U+1F87", <<"U+1F0F", "U+0399">>>>,
      <<"U+1F88", <<"U+1F08", "U+0399">>>>, <<"U+1F89", <<"U+1F09", "U+0399">>>>,
      <<"U+1F8A", <<"U+1F0A", "U+0399">>>>, <<"U+1F8B", <<"U+1F0B", "U+0399">>>>,
      <<"U+1F8C", <<"U+1F0C", "U+0399">>>>, <<"U+1F8D", <<"U+1F0D", "U+0399">>>>,
      <<"U+1F8E", <<"U+1F0E", "U+0399">>>>, <<"U+1F8F", <<"U+1F0F", "U+0399">>>>,
      <<"U+1F90", <<"U+1F28", "U+0399">>>>, <<"U+1F91", <<"U+1F29", "U+0399">>>>,
      <<"U+1F92", <<"U+1F2A", "U+0399">>>>, <<"U+1F93", <<"U+1F2B", "U+0399">>>>,
      <<"U+1F94", <<"U+1F2C", "U+0399">>>>, <<"U+1F95", <<"U+1F2D", "U+0399">>>>,
      <<"U+1F96", <<"U+1F2E", "U+0399">>>>, <<"U+1F97", <<"U+1F2F", "U+0399">>>>,
      <<"U+1F98", <<"U+1F28", "U+0399">>>>, <<"U+1F99", <<"U+1F29", "U+0399">>>>,
      <<"U+1F9A", <<"U+1F2A", "U+0399">>>>, <<"U+1F9B", <<"U+1F2B", "U+0399">>>>,
      <<"U+1F9C", <<"U+1F2C", "U+0399">>>>, <<"U+1F9D", <<"U+1F2D", "U+0399">>>>,
      <<"U+1F9E", <<"U+1F2E", "U+0399">>>>, <<"U+1F9F", <<"U+1F2F", "U+0399">>>>,
      <<"U+1FA0", <<"U+1F68", "U+0399">>>>, <<"U+1FA1", <<"U+1F69", "U+0399">>>>,
      <<"U+1FA2", <<"U+1F6A", "U+0399">>>>, <<"U+1FA3", <<"U+1F6B", "U+0399">>>>,
      <<"U+1FA4", <<"U+1F6C", "U+0399">>>>, <<"U+1FA5", <<"U+1F6D", "U+0399">>>>,
      <<"U+1FA6", <<"U+1F6E", "U+0399">>>>, <<"U+1FA7", <<"U+1F6F", "U+0399">>>>,
      <<"U+1FA8", <<"U+1F68", "U+0399">>>>, <<"U+1FA9", <<"U+1F69", "U+0399">>>>,
      <<"U+1FAA", <<"U+1F6A", "U+0399">>>>, <<"U+1FAB", <<"U+1F6B", "U+0399">>>>,
      <<"U+1FAC", <<"U+1F6C", "U+0399">>>>, <<"U+1FAD", <<"U+1F6D", "U+0399">>>>,
      <<"U+1FAE", <<"U+1F6E", "U+0399">>>>, <<"U+1FAF", <<"U+1F6F", "U+0399">>>>,
      <<"U+1FB0", <<"U+1FB8">>>>, <<"U+1FB1", <<"U+1FB9">>>>,
      <<"U+1FB2", <<"U+1FBA", "U+0399">>>>, <<"U+1FB3", <<"U+0391", "U+0399">>>>,
      <<"U+1FB4", <<"U+0386", "U+0399">>>>, <<"U+1FB6", <<"U+0391", "U+0342">>>>,
      <<"U+1FB7", <<"U+0391", "U+0342", "U+0399">>>>, <<"U+1FBC", <<"U+0391", "U+0399">>>>,
      <<"U+1FBE", <<"U+0399">>>>, <<"U+1FC2", <<"U+1FCA", "U+0399">>>>,
      <<"U+1FC3", <<"U+0397", "U+0399">>>>, <<"U+1FC4", <<"U+0389", "U+0399">>>>,
      <<"U+1FC6", <<"U+0397", "U+0342">>>>, <<"U+1FC7", <<"U+0397", "U+0342", "U+0399">>>>,
      <<"U+1FCC", <<"U+0397", "U+0399">>>>, <<"U+1FD0", <<"U+1FD8">>>>,
      <<"U+1FD1", <<"U+1FD9">>>>, <<"U+1FD2", <<"U+0399", "U+0308", "U+0300">>>>,
      <<"U+1FD3", <<"U+0399", "U+0308", "U+0301">>>>, <<"U+1FD6", <<"U+0399", "U+0342">>>>,
      <<"U+1FD7", <<"U+0399", "U+0308", "U+0342">>>>, <<"U+1FE0", <<"U+1FE8">>>>,
      <<"U+1FE1", <<"U+1FE9">>>>, <<"U+1FE2", <<"U+03A5", "U+0308", "U+0300">>>>,
      <<"U+1FE3", <<"U+03A5", "U+0308", "U+0301">>>>, <<"U+1FE4", <<"U+03A1", "U+0313">>>>,
      <<"U+1FE5", <<"U+1FEC">>>>, <<"U+1FE6", <<"U+03A5", "U+0342">>>>,
      <<"U+1FE7", <<"U+03A5", "U+0308", "U+0342">>>>, <<"U+1FF2", <<"U+1FFA", "U+0399">>>>,
      <<"U+1FF3", <<"U+03A9", "U+0399">>>>, <<"U+1FF4", <<"U+038F", "U+0399">>>>,
      <<"U+1FF6", <<"U+03A9", "U+0342">>>>, <<"U+1FF7", <<"U+03A9", "U+0342", "U+0399">>>>,
      <<"U+1FFC", <<"U+03A9", "U+0399">>>>, <<"U+214E", <<"U+2132">>>>,
      <<"U+2170", <<"U+2160">>>>, <<"U+2171", <<"U+2161">>>>, <<"U+2172", <<"U+2162">>>>,
      <<"U+2173", <<"U+2163">>>>, <<"U+2174", <<"U+2164">>>>, <<"U+2175", <<"U+2165">>>>,
      <<"U+2176", <<"U+2166">>>>, <<"U+2177", <<"U+2167">>>>, <<"U+2178", <<"U+2168">>>>,
      <<"U+2179", <<"U+2169">>>>, <<"U+217A", <<"U+216A">>>>, <<"U+217B", <<"U+216B">>>>,
      <<"U+217C", <<"U+216C">>>>, <<"U+217D", <<"U+216D">>>>, <<"U+217E", <<"U+216E">>>>,
      <<"U+217F", <<"U+216F">>>>, <<"U+2184", <<"U+2183">>>>, <<"U+24D0", <<"U+24B6">>>>,
      <<"U+24D1", <<"U+24B7">>>>, <<"U+24D2", <<"U+24B8">>>>, <<"U+24D3", <<"U+24B9">>>>,
      <<"U+24D4", <<"U+24BA">>>>, <<"U+24D5", <<"U+24BB">>>>, <<"U+24D6", <<"U+24BC">>>>,
      <<"U+24D7", <<"U+24BD">>>>, <<"U+24D8", <<"U+24BE">>>>, <<"U+24D9", <<"U+24BF">>>>,
      <<"U+24DA", <<"U+24C0">>>>, <<"U+24DB", <<"U+24C1">>>>, <<"U+24DC", <<"U+24C2">>>>,
      <<"U+24DD", <<"U+24C3">>>>, <<"U+24DE", <<"U+24C4">>>>, <<"U+24DF", <<"U+24C5">>>>,
      <<"U+24E0", <<"U+24C6">>>>, <<"U+24E1", <<"U+24C7">>>>, <<"U+24E2", <<"U+24C8">>>>,
      <<"U+24E3", <<"U+24C9">>>>, <<"U+24E4", <<"U+24CA">>>>, <<"U+24E5", <<"U+24CB">>>>,
      <<"U+24E6", <<"U+24CC">>>>, <<"U+24E7", <<"U+24CD">>>>, <<"U+24E8", <<"U+24CE">>>>,
      <<"U+24E9", <<"U+24CF">>>>, <<"U+2C30", <<"U+2C00">>>>, <<"U+2C31", <<"U+2C01">>>>,
      <<"U+2C32", <<"U+2C02">>>>, <<"U+2C33", <<"U+2C03">>>>, <<"U+2C34", <<"U+2C04">>>>,
      <<"U+2C35", <<"U+2C05">>>>, <<"U+2C36", <<"U+2C06">>>>, <<"U+2C37", <<"U+2C07">>>>,
      <<"U+2C38", <<"U+2C08">>>>, <<"U+2C39", <<"U+2C09">>>>, <<"U+2C3A", <<"U+2C0A">>>>,
      <<"U+2C3B", <<"U+2C0B">>>>, <<"U+2C3C", <<"U+2C0C">>>>, <<"U+2C3D", <<"U+2C0D">>>>,
      <<"U+2C3E", <<"U+2C0E">>>>, <<"U+2C3F", <<"U+2C0F">>>>, <<"U+2C40", <<"U+2C10">>>>,
      <<"U+2C41", <<"U+2C11">>>>, <<"U+2C42", <<"U+2C12">>>>, <<"U+2C43", <<"U+2C13">>>>,
      <<"U+2C44", <<"U+2C14">>>>, <<"U+2C45", <<"U+2C15">>>>, <<"U+2C46", <<"U+2C16">>>>,
      <<"U+2C47", <<"U+2C17">>>>, <<"U+2C48", <<"U+2C18">>>>, <<"U+2C49", <<"U+2C19">>>>,
      <<"U+2C4A", <<"U+2C1A">>>>, <<"U+2C4B", <<"U+2C1B">>>>, <<"U+2C4C", <<"U+2C1C">>>>,
      <<"U+2C4D", <<"U+2C1D">>>>, <<"U+2C4E", <<"U+2C1E">>>>, <<"U+2C4F", <<"U+2C1F">>>>,
      <<"U+2C50", <<"U+2C20">>>>, <<"U+2C51", <<"U+2C21">>>>, <<"U+2C52", <<"U+2C22">>>>,
      <<"U+2C53", <<"U+2C23">>>>, <<"U+2C54", <<"U+2C24">>>>, <<"U+2C55", <<"U+2C25">>>>,
      <<"U+2C56", <<"U+2C26">>>>, <<"U+2C57", <<"U+2C27">>>>, <<"U+2C58", <<"U+2C28">>>>,
      <<"U+2C59", <<"U+2C29">>>>, <<"U+2C5A", <<"U+2C2A">>>>, <<"U+2C5B", <<"U+2C2B">>>>,
      <<"U+2C5C", <<"U+2C2C">>>>, <<"U+2C5D", <<"U+2C2D">>>>, <<"U+2C5E", <<"U+2C2E">>>>,
      <<"U+2C5F", <<"U+2C2F">>>>, <<"U+2C61", <<"U+2C60">>>>, <<"U+2C65", <<"U+023A">>>>,
      <<"U+2C66", <<"U+023E">>>>, <<"U+2C68", <<"U+2C67">>>>, <<"U+2C6A", <<"U+2C69">>>>,
      <<"U+2C6C", <<"U+2C6B">>>>, <<"U+2C73", <<"U+2C72">>>>, <<"U+2C76", <<"U+2C75">>>>,
      <<"U+2C81", <<"U+2C80">>>>, <<"U+2C83", <<"U+2C82">>>>, <<"U+2C85", <<"U+2C84">>>>,
      <<"U+2C87", <<"U+2C86">>>>, <<"U+2C89", <<"U+2C88">>>>, <<"U+2C8B", <<"U+2C8A">>>>,
      <<"U+2C8D", <<"U+2C8C">>>>, <<"U+2C8F", <<"U+2C8E">>>>, <<"U+2C91", <<"U+2C90">>>>,
      <<"U+2C93", <<"U+2C92">>>>, <<"U+2C95", <<"U+2C94">>>>, <<"U+2C97", <<"U+2C96">>>>,
      <<"U+2C99", <<"U+2C98">>>>, <<"U+2C9B", <<"U+2C9A">>>>, <<"U+2C9D", <<"U+2C9C">>>>,
      <<"U+2C9F", <<"U+2C9E">>>>, <<"U+2CA1", <<"U+2CA0">>>>, <<"U+2CA3", <<"U+2CA2">>>>,
      <<"U+2CA5", <<"U+2CA4">>>>, <<"U+2CA7", <<"U+2CA6">>>>, <<"U+2CA9", <<"U+2CA8">>>>,
      <<"U+2CAB", <<"U+2CAA">>>>, <<"U+2CAD", <<"U+2CAC">>>>, <<"U+2CAF", <<"U+2CAE">>>>,
      <<"U+2CB1", <<"U+2CB0">>>>, <<"U+2CB3", <<"U+2CB2">>>>, <<"U+2CB5", <<"U+2CB4">>>>,
      <<"U+2CB7", <<"U+2CB6">>>>, <<"U+2CB9", <<"U+2CB8">>>>, <<"U+2CBB", <<"U+2CBA">>>>,
      <<"U+2CBD", <<"U+2CBC">>>>, <<"U+2CBF", <<"U+2CBE">>>>, <<"U+2CC1", <<"U+2CC0">>>>,
      <<"U+2CC3", <<"U+2CC2">>>>, <<"U+2CC5", <<"U+2CC4">>>>, <<"U+2CC7", <<"U+2CC6">>>>,
      <<"U+2CC9", <<"U+2CC8">>>>, <<"U+2CCB", <<"U+2CCA">>>>, <<"U+2CCD", <<"U+2CCC">>>>,
      <<"U+2CCF", <<"U+2CCE">>>>, <<"U+2CD1", <<"U+2CD0">>>>, <<"U+2CD3", <<"U+2CD2">>>>,
      <<"U+2CD5", <<"U+2CD4">>>>, <<"U+2CD7", <<"U+2CD6">>>>, <<"U+2CD9", <<"U+2CD8">>>>,
      <<"U+2CDB", <<"U+2CDA">>>>, <<"U+2CDD", <<"U+2CDC">>>>, <<"U+2CDF", <<"U+2CDE">>>>,
      <<"U+2CE1", <<"U+2CE0">>>>, <<"U+2CE3", <<"U+2CE2">>>>, <<"U+2CEC", <<"U+2CEB">>>>,
      <<"U+2CEE", <<"U+2CED">>>>, <<"U+2CF3", <<"U+2CF2">>>>, <<"U+2D00", <<"U+10A0">>>>,
      <<"U+2D01", <<"U+10A1">>>>, <<"U+2D02", <<"U+10A2">>>>, <<"U+2D03", <<"U+10A3">>>>,
      <<"U+2D04", <<"U+10A4">>>>, <<"U+2D05", <<"U+10A5">>>>, <<"U+2D06", <<"U+10A6">>>>,
      <<"U+2D07", <<"U+10A7">>>>, <<"U+2D08", <<"U+10A8">>>>, <<"U+2D09", <<"U+10A9">>>>,
      <<"U+2D0A", <<"U+10AA">>>>, <<"U+2D0B", <<"U+10AB">>>>, <<"U+2D0C", <<"U+10AC">>>>,
      <<"U+2D0D", <<"U+10AD">>>>, <<"U+2D0E", <<"U+10AE">>>>, <<"U+2D0F", <<"U+10AF">>>>,
      <<"U+2D10", <<"U+10B0">>>>, <<"U+2D11", <<"U+10B1">>>>, <<"U+2D12", <<"U+10B2">>>>,
      <<"U+2D13", <<"U+10B3">>>>, <<"U+2D14", <<"U+10B4">>>>, <<"U+2D15", <<"U+10B5">>>>,
      <<"U+2D16", <<"U+10B6">>>>, <<"U+2D17", <<"U+10B7">>>>, <<"U+2D18", <<"U+10B8">>>>,
      <<"U+2D19", <<"U+10B9">>>>, <<"U+2D1A", <<"U+10BA">>>>, <<"U+2D1B", <<"U+10BB">>>>,
      <<"U+2D1C", <<"U+10BC">>>>, <<"U+2D1D", <<"U+10BD">>>>, <<"U+2D1E", <<"U+10BE">>>>,
      <<"U+2D1F", <<"U+10BF">>>>, <<"U+2D20", <<"U+10C0">>>>, <<"U+2D21", <<"U+10C1">>>>,
      <<"U+2D22", <<"U+10C2">>>>, <<"U+2D23", <<"U+10C3">>>>, <<"U+2D24", <<"U+10C4">>>>,
      <<"U+2D25", <<"U+10C5">>>>, <<"U+2D27", <<"U+10C7">>>>, <<"U+2D2D", <<"U+10CD">>>>,
      <<"U+A641", <<"U+A640">>>>, <<"U+A643", <<"U+A642">>>>, <<"U+A645", <<"U+A644">>>>,
      <<"U+A647", <<"U+A646">>>>, <<"U+A649", <<"U+A648">>>>, <<"U+A64B", <<"U+A64A">>>>,
      <<"U+A64D", <<"U+A64C">>>>, <<"U+A64F", <<"U+A64E">>>>, <<"U+A651", <<"U+A650">>>>,
      <<"U+A653", <<"U+A652">>>>, <<"U+A655", <<"U+A654">>>>, <<"U+A657", <<"U+A656">>>>,
      <<"U+A659", <<"U+A658">>>>, <<"U+A65B", <<"U+A65A">>>>, <<"U+A65D", <<"U+A65C">>>>,
      <<"U+A65F", <<"U+A65E">>>>, <<"U+A661", <<"U+A660">>>>, <<"U+A663", <<"U+A662">>>>,
      <<"U+A665", <<"U+A664">>>>, <<"U+A667", <<"U+A666">>>>, <<"U+A669", <<"U+A668">>>>,
      <<"U+A66B", <<"U+A66A">>>>, <<"U+A66D", <<"U+A66C">>>>, <<"U+A681", <<"U+A680">>>>,
      <<"U+A683", <<"U+A682">>>>, <<"U+A685", <<"U+A684">>>>, <<"U+A687", <<"U+A686">>>>,
      <<"U+A689", <<"U+A688">>>>, <<"U+A68B", <<"U+A68A">>>>, <<"U+A68D", <<"U+A68C">>>>,
      <<"U+A68F", <<"U+A68E">>>>, <<"U+A691", <<"U+A690">>>>, <<"U+A693", <<"U+A692">>>>,
      <<"U+A695", <<"U+A694">>>>, <<"U+A697", <<"U+A696">>>>, <<"U+A699", <<"U+A698">>>>,
      <<"U+A69B", <<"U+A69A">>>>, <<"U+A723", <<"U+A722">>>>, <<"U+A725", <<"U+A724">>>>,
      <<"U+A727", <<"U+A726">>>>, <<"U+A729", <<"U+A728">>>>, <<"U+A72B", <<"U+A72A">>>>,
      <<"U+A72D", <<"U+A72C">>>>, <<"U+A72F", <<"U+A72E">>>>, <<"U+A733", <<"U+A732">>>>,
      <<"U+A735", <<"U+A734">>>>, <<"U+A737", <<"U+A736">>>>, <<"U+A739", <<"U+A738">>>>,
      <<"U+A73B", <<"U+A73A">>>>, <<"U+A73D", <<"U+A73C">>>>, <<"U+A73F", <<"U+A73E">>>>,
      <<"U+A741", <<"U+A740">>>>, <<"U+A743", <<"U+A742">>>>, <<"U+A745", <<"U+A744">>>>,
      <<"U+A747", <<"U+A746">>>>, <<"U+A749", <<"U+A748">>>>, <<"U+A74B", <<"U+A74A">>>>,
      <<"U+A74D", <<"U+A74C">>>>, <<"U+A74F", <<"U+A74E">>>>, <<"U+A751", <<"U+A750">>>>,
      <<"U+A753", <<"U+A752">>>>, <<"U+A755", <<"U+A754">>>>, <<"U+A757", <<"U+A756">>>>,
      <<"U+A759", <<"U+A758">>>>, <<"U+A75B", <<"U+A75A">>>>, <<"U+A75D", <<"U+A75C">>>>,
      <<"U+A75F", <<"U+A75E">>>>, <<"U+A761", <<"U+A760">>>>, <<"U+A763", <<"U+A762">>>>,
      <<"U+A765", <<"U+A764">>>>, <<"U+A767", <<"U+A766">>>>, <<"U+A769", <<"U+A768">>>>,
      <<"U+A76B", <<"U+A76A">>>>, <<"U+A76D", <<"U+A76C">>>>, <<"U+A76F", <<"U+A76E">>>>,
      <<"U+A77A", <<"U+A779">>>>, <<"U+A77C", <<"U+A77B">>>>, <<"U+A77F", <<"U+A77E">>>>,
      <<"U+A781", <<"U+A780">>>>, <<"U+A783", <<"U+A782">>>>, <<"U+A785", <<"U+A784">>>>,
      <<"U+A787", <<"U+A786">>>>, <<"U+A78C", <<"U+A78B">>>>, <<"U+A791", <<"U+A790">>>>,
      <<"U+A793", <<"U+A792">>>>, <<"U+A794", <<"U+A7C4">>>>, <<"U+A797", <<"U+A796">>>>,
      <<"U+A799", <<"U+A798">>>>, <<"U+A79B", <<"U+A79A">>>>, <<"U+A79D", <<"U+A79C">>>>,
      <<"U+A79F", <<"U+A79E">>>>, <<"U+A7A1", <<"U+A7A0">>>>, <<"U+A7A3", <<"U+A7A2">>>>,
      <<"U+A7A5", <<"U+A7A4">>>>, <<"U+A7A7", <<"U+A7A6">>>>, <<"U+A7A9", <<"U+A7A8">>>>,
      <<"U+A7B5", <<"U+A7B4">>>>, <<"U+A7B7", <<"U+A7B6">>>>, <<"U+A7B9", <<"U+A7B8">>>>,
      <<"U+A7BB", <<"U+A7BA">>>>, <<"U+A7BD", <<"U+A7BC">>>>, <<"U+A7BF", <<"U+A7BE">>>>,
      <<"U+A7C1", <<"U+A7C0">>>>, <<"U+A7C3", <<"U+A7C2">>>>, <<"U+A7C8", <<"U+A7C7">>>>,
      <<"U+A7CA", <<"U+A7C9">>>>, <<"U+A7CD", <<"U+A7CC">>>>, <<"U+A7CF", <<"U+A7CE">>>>,
      <<"U+A7D1", <<"U+A7D0">>>>, <<"U+A7D3", <<"U+A7D2">>>>, <<"U+A7D5", <<"U+A7D4">>>>,
      <<"U+A7D7", <<"U+A7D6">>>>, <<"U+A7D9", <<"U+A7D8">>>>, <<"U+A7DB", <<"U+A7DA">>>>,
      <<"U+A7F6", <<"U+A7F5">>>>, <<"U+AB53", <<"U+A7B3">>>>, <<"U+AB70", <<"U+13A0">>>>,
      <<"U+AB71", <<"U+13A1">>>>, <<"U+AB72", <<"U+13A2">>>>, <<"U+AB73", <<"U+13A3">>>>,
      <<"U+AB74", <<"U+13A4">>>>, <<"U+AB75", <<"U+13A5">>>>, <<"U+AB76", <<"U+13A6">>>>,
      <<"U+AB77", <<"U+13A7">>>>, <<"U+AB78", <<"U+13A8">>>>, <<"U+AB79", <<"U+13A9">>>>,
      <<"U+AB7A", <<"U+13AA">>>>, <<"U+AB7B", <<"U+13AB">>>>, <<"U+AB7C", <<"U+13AC">>>>,
      <<"U+AB7D", <<"U+13AD">>>>, <<"U+AB7E", <<"U+13AE">>>>, <<"U+AB7F", <<"U+13AF">>>>,
      <<"U+AB80", <<"U+13B0">>>>, <<"U+AB81", <<"U+13B1">>>>, <<"U+AB82", <<"U+13B2">>>>,
      <<"U+AB83", <<"U+13B3">>>>, <<"U+AB84", <<"U+13B4">>>>, <<"U+AB85", <<"U+13B5">>>>,
      <<"U+AB86", <<"U+13B6">>>>, <<"U+AB87", <<"U+13B7">>>>, <<"U+AB88", <<"U+13B8">>>>,
      <<"U+AB89", <<"U+13B9">>>>, <<"U+AB8A", <<"U+13BA">>>>, <<"U+AB8B", <<"U+13BB">>>>,
      <<"U+AB8C", <<"U+13BC">>>>, <<"U+AB8D", <<"U+13BD">>>>, <<"U+AB8E", <<"U+13BE">>>>,
      <<"U+AB8F", <<"U+13BF">>>>, <<"U+AB90", <<"U+13C0">>>>, <<"U+AB91", <<"U+13C1">>>>,
      <<"U+AB92", <<"U+13C2">>>>, <<"U+AB93", <<"U+13C3">>>>, <<"U+AB94", <<"U+13C4">>>>,
      <<"U+AB95", <<"U+13C5">>>>, <<"U+AB96", <<"U+13C6">>>>, <<"U+AB97", <<"U+13C7">>>>,
      <<"U+AB98", <<"U+13C8">>>>, <<"U+AB99", <<"U+13C9">>>>, <<"U+AB9A", <<"U+13CA">>>>,
      <<"U+AB9B", <<"U+13CB">>>>, <<"U+AB9C", <<"U+13CC">>>>, <<"U+AB9D", <<"U+13CD">>>>,
      <<"U+AB9E", <<"U+13CE">>>>, <<"U+AB9F", <<"U+13CF">>>>, <<"U+ABA0", <<"U+13D0">>>>,
      <<"U+ABA1", <<"U+13D1">>>>, <<"U+ABA2", <<"U+13D2">>>>, <<"U+ABA3", <<"U+13D3">>>>,
      <<"U+ABA4", <<"U+13D4">>>>, <<"U+ABA5", <<"U+13D5">>>>, <<"U+ABA6", <<"U+13D6">>>>,
      <<"U+ABA7", <<"U+13D7">>>>, <<"U+ABA8", <<"U+13D8">>>>, <<"U+ABA9", <<"U+13D9">>>>,
      <<"U+ABAA", <<"U+13DA">>>>, <<"U+ABAB", <<"U+13DB">>>>, <<"U+ABAC", <<"U+13DC">>>>,
      <<"U+ABAD", <<"U+13DD">>>>, <<"U+ABAE", <<"U+13DE">>>>, <<"U+ABAF", <<"U+13DF">>>>,
      <<"U+ABB0", <<"U+13E0">>>>, <<"U+ABB1", <<"U+13E1">>>>, <<"U+ABB2", <<"U+13E2">>>>,
      <<"U+ABB3", <<"U+13E3">>>>, <<"U+ABB4", <<"U+13E4">>>>, <<"U+ABB5", <<"U+13E5">>>>,
      <<"U+ABB6", <<"U+13E6">>>>, <<"U+ABB7", <<"U+13E7">>>>, <<"U+ABB8", <<"U+13E8">>>>,
      <<"U+ABB9", <<"U+13E9">>>>, <<"U+ABBA", <<"U+13EA">>>>, <<"U+ABBB", <<"U+13EB">>>>,
      <<"U+ABBC", <<"U+13EC">>>>, <<"U+ABBD", <<"U+13ED">>>>, <<"U+ABBE", <<"U+13EE">>>>,
      <<"U+ABBF", <<"U+13EF">>>>, <<"U+FB00", <<"F", "F">>>>, <<"U+FB01", <<"F", "I">>>>,
      <<"U+FB02", <<"F", "L">>>>, <<"U+FB03", <<"F", "F", "I">>>>,
      <<"U+FB04", <<"F", "F", "L">>>>, <<"U+FB05", <<"S", "T">>>>, <<"U+FB06", <<"S", "T">>>>,
      <<"U+FB13", <<"U+0544", "U+0546">>>>, <<"U+FB14", <<"U+0544", "U+0535">>>>,
      <<"U+FB15", <<"U+0544", "U+053B">>>>, <<"U+FB16", <<"U+054E", "U+0546">>>>,
      <<"U+FB17", <<"U+0544", "U+053D">>>>, <<"U+FF41", <<"U+FF21">>>>,
      <<"U+FF42", <<"U+FF22">>>>, <<"U+FF43", <<"U+FF23">>>>, <<"U+FF44", <<"U+FF24">>>>,
      <<"U+FF45", <<"U+FF25">>>>, <<"U+FF46", <<"U+FF26">>>>, <<"U+FF47", <<"U+FF27">>>>,
      <<"U+FF48", <<"U+FF28">>>>, <<"U+FF49", <<"U+FF29">>>>, <<"U+FF4A", <<"U+FF2A">>>>,
      <<"U+FF4B", <<"U+FF2B">>>>, <<"U+FF4C", <<"U+FF2C">>>>, <<"U+FF4D", <<"U+FF2D">>>>,
      <<"U+FF4E", <<"U+FF2E">>>>, <<"U+FF4F", <<"U+FF2F">>>>, <<"U+FF50", <<"U+FF30">>>>,
      <<"U+FF51", <<"U+FF31">>>>, <<"U+FF52", <<"U+FF32">>>>, <<"U+FF53", <<"U+FF33">>>>,
      <<"U+FF54", <<"U+FF34">>>>, <<"U+FF55", <<"U+FF35">>>>, <<"U+FF56", <<"U+FF36">>>>,
      <<"U+FF57", <<"U+FF37">>>>, <<"U+FF58", <<"U+FF38">>>>, <<"U+FF59", <<"U+FF39">>>>,
      <<"U+FF5A", <<"U+FF3A">>>> >>

\* the same for the characters outside the basic plane, which a string holds as
\* a surrogate pair: the two code units, and the two they become
UpperCasePairs ==
    <<<<<<"U+D801", "U+DC28">>, <<"U+D801", "U+DC00">>>>,
      <<<<"U+D801", "U+DC29">>, <<"U+D801", "U+DC01">>>>,
      <<<<"U+D801", "U+DC2A">>, <<"U+D801", "U+DC02">>>>,
      <<<<"U+D801", "U+DC2B">>, <<"U+D801", "U+DC03">>>>,
      <<<<"U+D801", "U+DC2C">>, <<"U+D801", "U+DC04">>>>,
      <<<<"U+D801", "U+DC2D">>, <<"U+D801", "U+DC05">>>>,
      <<<<"U+D801", "U+DC2E">>, <<"U+D801", "U+DC06">>>>,
      <<<<"U+D801", "U+DC2F">>, <<"U+D801", "U+DC07">>>>,
      <<<<"U+D801", "U+DC30">>, <<"U+D801", "U+DC08">>>>,
      <<<<"U+D801", "U+DC31">>, <<"U+D801", "U+DC09">>>>,
      <<<<"U+D801", "U+DC32">>, <<"U+D801", "U+DC0A">>>>,
      <<<<"U+D801", "U+DC33">>, <<"U+D801", "U+DC0B">>>>,
      <<<<"U+D801", "U+DC34">>, <<"U+D801", "U+DC0C">>>>,
      <<<<"U+D801", "U+DC35">>, <<"U+D801", "U+DC0D">>>>,
      <<<<"U+D801", "U+DC36">>, <<"U+D801", "U+DC0E">>>>,
      <<<<"U+D801", "U+DC37">>, <<"U+D801", "U+DC0F">>>>,
      <<<<"U+D801", "U+DC38">>, <<"U+D801", "U+DC10">>>>,
      <<<<"U+D801", "U+DC39">>, <<"U+D801", "U+DC11">>>>,
      <<<<"U+D801", "U+DC3A">>, <<"U+D801", "U+DC12">>>>,
      <<<<"U+D801", "U+DC3B">>, <<"U+D801", "U+DC13">>>>,
      <<<<"U+D801", "U+DC3C">>, <<"U+D801", "U+DC14">>>>,
      <<<<"U+D801", "U+DC3D">>, <<"U+D801", "U+DC15">>>>,
      <<<<"U+D801", "U+DC3E">>, <<"U+D801", "U+DC16">>>>,
      <<<<"U+D801", "U+DC3F">>, <<"U+D801", "U+DC17">>>>,
      <<<<"U+D801", "U+DC40">>, <<"U+D801", "U+DC18">>>>,
      <<<<"U+D801", "U+DC41">>, <<"U+D801", "U+DC19">>>>,
      <<<<"U+D801", "U+DC42">>, <<"U+D801", "U+DC1A">>>>,
      <<<<"U+D801", "U+DC43">>, <<"U+D801", "U+DC1B">>>>,
      <<<<"U+D801", "U+DC44">>, <<"U+D801", "U+DC1C">>>>,
      <<<<"U+D801", "U+DC45">>, <<"U+D801", "U+DC1D">>>>,
      <<<<"U+D801", "U+DC46">>, <<"U+D801", "U+DC1E">>>>,
      <<<<"U+D801", "U+DC47">>, <<"U+D801", "U+DC1F">>>>,
      <<<<"U+D801", "U+DC48">>, <<"U+D801", "U+DC20">>>>,
      <<<<"U+D801", "U+DC49">>, <<"U+D801", "U+DC21">>>>,
      <<<<"U+D801", "U+DC4A">>, <<"U+D801", "U+DC22">>>>,
      <<<<"U+D801", "U+DC4B">>, <<"U+D801", "U+DC23">>>>,
      <<<<"U+D801", "U+DC4C">>, <<"U+D801", "U+DC24">>>>,
      <<<<"U+D801", "U+DC4D">>, <<"U+D801", "U+DC25">>>>,
      <<<<"U+D801", "U+DC4E">>, <<"U+D801", "U+DC26">>>>,
      <<<<"U+D801", "U+DC4F">>, <<"U+D801", "U+DC27">>>>,
      <<<<"U+D801", "U+DCD8">>, <<"U+D801", "U+DCB0">>>>,
      <<<<"U+D801", "U+DCD9">>, <<"U+D801", "U+DCB1">>>>,
      <<<<"U+D801", "U+DCDA">>, <<"U+D801", "U+DCB2">>>>,
      <<<<"U+D801", "U+DCDB">>, <<"U+D801", "U+DCB3">>>>,
      <<<<"U+D801", "U+DCDC">>, <<"U+D801", "U+DCB4">>>>,
      <<<<"U+D801", "U+DCDD">>, <<"U+D801", "U+DCB5">>>>,
      <<<<"U+D801", "U+DCDE">>, <<"U+D801", "U+DCB6">>>>,
      <<<<"U+D801", "U+DCDF">>, <<"U+D801", "U+DCB7">>>>,
      <<<<"U+D801", "U+DCE0">>, <<"U+D801", "U+DCB8">>>>,
      <<<<"U+D801", "U+DCE1">>, <<"U+D801", "U+DCB9">>>>,
      <<<<"U+D801", "U+DCE2">>, <<"U+D801", "U+DCBA">>>>,
      <<<<"U+D801", "U+DCE3">>, <<"U+D801", "U+DCBB">>>>,
      <<<<"U+D801", "U+DCE4">>, <<"U+D801", "U+DCBC">>>>,
      <<<<"U+D801", "U+DCE5">>, <<"U+D801", "U+DCBD">>>>,
      <<<<"U+D801", "U+DCE6">>, <<"U+D801", "U+DCBE">>>>,
      <<<<"U+D801", "U+DCE7">>, <<"U+D801", "U+DCBF">>>>,
      <<<<"U+D801", "U+DCE8">>, <<"U+D801", "U+DCC0">>>>,
      <<<<"U+D801", "U+DCE9">>, <<"U+D801", "U+DCC1">>>>,
      <<<<"U+D801", "U+DCEA">>, <<"U+D801", "U+DCC2">>>>,
      <<<<"U+D801", "U+DCEB">>, <<"U+D801", "U+DCC3">>>>,
      <<<<"U+D801", "U+DCEC">>, <<"U+D801", "U+DCC4">>>>,
      <<<<"U+D801", "U+DCED">>, <<"U+D801", "U+DCC5">>>>,
      <<<<"U+D801", "U+DCEE">>, <<"U+D801", "U+DCC6">>>>,
      <<<<"U+D801", "U+DCEF">>, <<"U+D801", "U+DCC7">>>>,
      <<<<"U+D801", "U+DCF0">>, <<"U+D801", "U+DCC8">>>>,
      <<<<"U+D801", "U+DCF1">>, <<"U+D801", "U+DCC9">>>>,
      <<<<"U+D801", "U+DCF2">>, <<"U+D801", "U+DCCA">>>>,
      <<<<"U+D801", "U+DCF3">>, <<"U+D801", "U+DCCB">>>>,
      <<<<"U+D801", "U+DCF4">>, <<"U+D801", "U+DCCC">>>>,
      <<<<"U+D801", "U+DCF5">>, <<"U+D801", "U+DCCD">>>>,
      <<<<"U+D801", "U+DCF6">>, <<"U+D801", "U+DCCE">>>>,
      <<<<"U+D801", "U+DCF7">>, <<"U+D801", "U+DCCF">>>>,
      <<<<"U+D801", "U+DCF8">>, <<"U+D801", "U+DCD0">>>>,
      <<<<"U+D801", "U+DCF9">>, <<"U+D801", "U+DCD1">>>>,
      <<<<"U+D801", "U+DCFA">>, <<"U+D801", "U+DCD2">>>>,
      <<<<"U+D801", "U+DCFB">>, <<"U+D801", "U+DCD3">>>>,
      <<<<"U+D801", "U+DD97">>, <<"U+D801", "U+DD70">>>>,
      <<<<"U+D801", "U+DD98">>, <<"U+D801", "U+DD71">>>>,
      <<<<"U+D801", "U+DD99">>, <<"U+D801", "U+DD72">>>>,
      <<<<"U+D801", "U+DD9A">>, <<"U+D801", "U+DD73">>>>,
      <<<<"U+D801", "U+DD9B">>, <<"U+D801", "U+DD74">>>>,
      <<<<"U+D801", "U+DD9C">>, <<"U+D801", "U+DD75">>>>,
      <<<<"U+D801", "U+DD9D">>, <<"U+D801", "U+DD76">>>>,
      <<<<"U+D801", "U+DD9E">>, <<"U+D801", "U+DD77">>>>,
      <<<<"U+D801", "U+DD9F">>, <<"U+D801", "U+DD78">>>>,
      <<<<"U+D801", "U+DDA0">>, <<"U+D801", "U+DD79">>>>,
      <<<<"U+D801", "U+DDA1">>, <<"U+D801", "U+DD7A">>>>,
      <<<<"U+D801", "U+DDA3">>, <<"U+D801", "U+DD7C">>>>,
      <<<<"U+D801", "U+DDA4">>, <<"U+D801", "U+DD7D">>>>,
      <<<<"U+D801", "U+DDA5">>, <<"U+D801", "U+DD7E">>>>,
      <<<<"U+D801", "U+DDA6">>, <<"U+D801", "U+DD7F">>>>,
      <<<<"U+D801", "U+DDA7">>, <<"U+D801", "U+DD80">>>>,
      <<<<"U+D801", "U+DDA8">>, <<"U+D801", "U+DD81">>>>,
      <<<<"U+D801", "U+DDA9">>, <<"U+D801", "U+DD82">>>>,
      <<<<"U+D801", "U+DDAA">>, <<"U+D801", "U+DD83">>>>,
      <<<<"U+D801", "U+DDAB">>, <<"U+D801", "U+DD84">>>>,
      <<<<"U+D801", "U+DDAC">>, <<"U+D801", "U+DD85">>>>,
      <<<<"U+D801", "U+DDAD">>, <<"U+D801", "U+DD86">>>>,
      <<<<"U+D801", "U+DDAE">>, <<"U+D801", "U+DD87">>>>,
      <<<<"U+D801", "U+DDAF">>, <<"U+D801", "U+DD88">>>>,
      <<<<"U+D801", "U+DDB0">>, <<"U+D801", "U+DD89">>>>,
      <<<<"U+D801", "U+DDB1">>, <<"U+D801", "U+DD8A">>>>,
      <<<<"U+D801", "U+DDB3">>, <<"U+D801", "U+DD8C">>>>,
      <<<<"U+D801", "U+DDB4">>, <<"U+D801", "U+DD8D">>>>,
      <<<<"U+D801", "U+DDB5">>, <<"U+D801", "U+DD8E">>>>,
      <<<<"U+D801", "U+DDB6">>, <<"U+D801", "U+DD8F">>>>,
      <<<<"U+D801", "U+DDB7">>, <<"U+D801", "U+DD90">>>>,
      <<<<"U+D801", "U+DDB8">>, <<"U+D801", "U+DD91">>>>,
      <<<<"U+D801", "U+DDB9">>, <<"U+D801", "U+DD92">>>>,
      <<<<"U+D801", "U+DDBB">>, <<"U+D801", "U+DD94">>>>,
      <<<<"U+D801", "U+DDBC">>, <<"U+D801", "U+DD95">>>>,
      <<<<"U+D803", "U+DCC0">>, <<"U+D803", "U+DC80">>>>,
      <<<<"U+D803", "U+DCC1">>, <<"U+D803", "U+DC81">>>>,
      <<<<"U+D803", "U+DCC2">>, <<"U+D803", "U+DC82">>>>,
      <<<<"U+D803", "U+DCC3">>, <<"U+D803", "U+DC83">>>>,
      <<<<"U+D803", "U+DCC4">>, <<"U+D803", "U+DC84">>>>,
      <<<<"U+D803", "U+DCC5">>, <<"U+D803", "U+DC85">>>>,
      <<<<"U+D803", "U+DCC6">>, <<"U+D803", "U+DC86">>>>,
      <<<<"U+D803", "U+DCC7">>, <<"U+D803", "U+DC87">>>>,
      <<<<"U+D803", "U+DCC8">>, <<"U+D803", "U+DC88">>>>,
      <<<<"U+D803", "U+DCC9">>, <<"U+D803", "U+DC89">>>>,
      <<<<"U+D803", "U+DCCA">>, <<"U+D803", "U+DC8A">>>>,
      <<<<"U+D803", "U+DCCB">>, <<"U+D803", "U+DC8B">>>>,
      <<<<"U+D803", "U+DCCC">>, <<"U+D803", "U+DC8C">>>>,
      <<<<"U+D803", "U+DCCD">>, <<"U+D803", "U+DC8D">>>>,
      <<<<"U+D803", "U+DCCE">>, <<"U+D803", "U+DC8E">>>>,
      <<<<"U+D803", "U+DCCF">>, <<"U+D803", "U+DC8F">>>>,
      <<<<"U+D803", "U+DCD0">>, <<"U+D803", "U+DC90">>>>,
      <<<<"U+D803", "U+DCD1">>, <<"U+D803", "U+DC91">>>>,
      <<<<"U+D803", "U+DCD2">>, <<"U+D803", "U+DC92">>>>,
      <<<<"U+D803", "U+DCD3">>, <<"U+D803", "U+DC93">>>>,
      <<<<"U+D803", "U+DCD4">>, <<"U+D803", "U+DC94">>>>,
      <<<<"U+D803", "U+DCD5">>, <<"U+D803", "U+DC95">>>>,
      <<<<"U+D803", "U+DCD6">>, <<"U+D803", "U+DC96">>>>,
      <<<<"U+D803", "U+DCD7">>, <<"U+D803", "U+DC97">>>>,
      <<<<"U+D803", "U+DCD8">>, <<"U+D803", "U+DC98">>>>,
      <<<<"U+D803", "U+DCD9">>, <<"U+D803", "U+DC99">>>>,
      <<<<"U+D803", "U+DCDA">>, <<"U+D803", "U+DC9A">>>>,
      <<<<"U+D803", "U+DCDB">>, <<"U+D803", "U+DC9B">>>>,
      <<<<"U+D803", "U+DCDC">>, <<"U+D803", "U+DC9C">>>>,
      <<<<"U+D803", "U+DCDD">>, <<"U+D803", "U+DC9D">>>>,
      <<<<"U+D803", "U+DCDE">>, <<"U+D803", "U+DC9E">>>>,
      <<<<"U+D803", "U+DCDF">>, <<"U+D803", "U+DC9F">>>>,
      <<<<"U+D803", "U+DCE0">>, <<"U+D803", "U+DCA0">>>>,
      <<<<"U+D803", "U+DCE1">>, <<"U+D803", "U+DCA1">>>>,
      <<<<"U+D803", "U+DCE2">>, <<"U+D803", "U+DCA2">>>>,
      <<<<"U+D803", "U+DCE3">>, <<"U+D803", "U+DCA3">>>>,
      <<<<"U+D803", "U+DCE4">>, <<"U+D803", "U+DCA4">>>>,
      <<<<"U+D803", "U+DCE5">>, <<"U+D803", "U+DCA5">>>>,
      <<<<"U+D803", "U+DCE6">>, <<"U+D803", "U+DCA6">>>>,
      <<<<"U+D803", "U+DCE7">>, <<"U+D803", "U+DCA7">>>>,
      <<<<"U+D803", "U+DCE8">>, <<"U+D803", "U+DCA8">>>>,
      <<<<"U+D803", "U+DCE9">>, <<"U+D803", "U+DCA9">>>>,
      <<<<"U+D803", "U+DCEA">>, <<"U+D803", "U+DCAA">>>>,
      <<<<"U+D803", "U+DCEB">>, <<"U+D803", "U+DCAB">>>>,
      <<<<"U+D803", "U+DCEC">>, <<"U+D803", "U+DCAC">>>>,
      <<<<"U+D803", "U+DCED">>, <<"U+D803", "U+DCAD">>>>,
      <<<<"U+D803", "U+DCEE">>, <<"U+D803", "U+DCAE">>>>,
      <<<<"U+D803", "U+DCEF">>, <<"U+D803", "U+DCAF">>>>,
      <<<<"U+D803", "U+DCF0">>, <<"U+D803", "U+DCB0">>>>,
      <<<<"U+D803", "U+DCF1">>, <<"U+D803", "U+DCB1">>>>,
      <<<<"U+D803", "U+DCF2">>, <<"U+D803", "U+DCB2">>>>,
      <<<<"U+D803", "U+DD70">>, <<"U+D803", "U+DD50">>>>,
      <<<<"U+D803", "U+DD71">>, <<"U+D803", "U+DD51">>>>,
      <<<<"U+D803", "U+DD72">>, <<"U+D803", "U+DD52">>>>,
      <<<<"U+D803", "U+DD73">>, <<"U+D803", "U+DD53">>>>,
      <<<<"U+D803", "U+DD74">>, <<"U+D803", "U+DD54">>>>,
      <<<<"U+D803", "U+DD75">>, <<"U+D803", "U+DD55">>>>,
      <<<<"U+D803", "U+DD76">>, <<"U+D803", "U+DD56">>>>,
      <<<<"U+D803", "U+DD77">>, <<"U+D803", "U+DD57">>>>,
      <<<<"U+D803", "U+DD78">>, <<"U+D803", "U+DD58">>>>,
      <<<<"U+D803", "U+DD79">>, <<"U+D803", "U+DD59">>>>,
      <<<<"U+D803", "U+DD7A">>, <<"U+D803", "U+DD5A">>>>,
      <<<<"U+D803", "U+DD7B">>, <<"U+D803", "U+DD5B">>>>,
      <<<<"U+D803", "U+DD7C">>, <<"U+D803", "U+DD5C">>>>,
      <<<<"U+D803", "U+DD7D">>, <<"U+D803", "U+DD5D">>>>,
      <<<<"U+D803", "U+DD7E">>, <<"U+D803", "U+DD5E">>>>,
      <<<<"U+D803", "U+DD7F">>, <<"U+D803", "U+DD5F">>>>,
      <<<<"U+D803", "U+DD80">>, <<"U+D803", "U+DD60">>>>,
      <<<<"U+D803", "U+DD81">>, <<"U+D803", "U+DD61">>>>,
      <<<<"U+D803", "U+DD82">>, <<"U+D803", "U+DD62">>>>,
      <<<<"U+D803", "U+DD83">>, <<"U+D803", "U+DD63">>>>,
      <<<<"U+D803", "U+DD84">>, <<"U+D803", "U+DD64">>>>,
      <<<<"U+D803", "U+DD85">>, <<"U+D803", "U+DD65">>>>,
      <<<<"U+D806", "U+DCC0">>, <<"U+D806", "U+DCA0">>>>,
      <<<<"U+D806", "U+DCC1">>, <<"U+D806", "U+DCA1">>>>,
      <<<<"U+D806", "U+DCC2">>, <<"U+D806", "U+DCA2">>>>,
      <<<<"U+D806", "U+DCC3">>, <<"U+D806", "U+DCA3">>>>,
      <<<<"U+D806", "U+DCC4">>, <<"U+D806", "U+DCA4">>>>,
      <<<<"U+D806", "U+DCC5">>, <<"U+D806", "U+DCA5">>>>,
      <<<<"U+D806", "U+DCC6">>, <<"U+D806", "U+DCA6">>>>,
      <<<<"U+D806", "U+DCC7">>, <<"U+D806", "U+DCA7">>>>,
      <<<<"U+D806", "U+DCC8">>, <<"U+D806", "U+DCA8">>>>,
      <<<<"U+D806", "U+DCC9">>, <<"U+D806", "U+DCA9">>>>,
      <<<<"U+D806", "U+DCCA">>, <<"U+D806", "U+DCAA">>>>,
      <<<<"U+D806", "U+DCCB">>, <<"U+D806", "U+DCAB">>>>,
      <<<<"U+D806", "U+DCCC">>, <<"U+D806", "U+DCAC">>>>,
      <<<<"U+D806", "U+DCCD">>, <<"U+D806", "U+DCAD">>>>,
      <<<<"U+D806", "U+DCCE">>, <<"U+D806", "U+DCAE">>>>,
      <<<<"U+D806", "U+DCCF">>, <<"U+D806", "U+DCAF">>>>,
      <<<<"U+D806", "U+DCD0">>, <<"U+D806", "U+DCB0">>>>,
      <<<<"U+D806", "U+DCD1">>, <<"U+D806", "U+DCB1">>>>,
      <<<<"U+D806", "U+DCD2">>, <<"U+D806", "U+DCB2">>>>,
      <<<<"U+D806", "U+DCD3">>, <<"U+D806", "U+DCB3">>>>,
      <<<<"U+D806", "U+DCD4">>, <<"U+D806", "U+DCB4">>>>,
      <<<<"U+D806", "U+DCD5">>, <<"U+D806", "U+DCB5">>>>,
      <<<<"U+D806", "U+DCD6">>, <<"U+D806", "U+DCB6">>>>,
      <<<<"U+D806", "U+DCD7">>, <<"U+D806", "U+DCB7">>>>,
      <<<<"U+D806", "U+DCD8">>, <<"U+D806", "U+DCB8">>>>,
      <<<<"U+D806", "U+DCD9">>, <<"U+D806", "U+DCB9">>>>,
      <<<<"U+D806", "U+DCDA">>, <<"U+D806", "U+DCBA">>>>,
      <<<<"U+D806", "U+DCDB">>, <<"U+D806", "U+DCBB">>>>,
      <<<<"U+D806", "U+DCDC">>, <<"U+D806", "U+DCBC">>>>,
      <<<<"U+D806", "U+DCDD">>, <<"U+D806", "U+DCBD">>>>,
      <<<<"U+D806", "U+DCDE">>, <<"U+D806", "U+DCBE">>>>,
      <<<<"U+D806", "U+DCDF">>, <<"U+D806", "U+DCBF">>>>,
      <<<<"U+D81B", "U+DE60">>, <<"U+D81B", "U+DE40">>>>,
      <<<<"U+D81B", "U+DE61">>, <<"U+D81B", "U+DE41">>>>,
      <<<<"U+D81B", "U+DE62">>, <<"U+D81B", "U+DE42">>>>,
      <<<<"U+D81B", "U+DE63">>, <<"U+D81B", "U+DE43">>>>,
      <<<<"U+D81B", "U+DE64">>, <<"U+D81B", "U+DE44">>>>,
      <<<<"U+D81B", "U+DE65">>, <<"U+D81B", "U+DE45">>>>,
      <<<<"U+D81B", "U+DE66">>, <<"U+D81B", "U+DE46">>>>,
      <<<<"U+D81B", "U+DE67">>, <<"U+D81B", "U+DE47">>>>,
      <<<<"U+D81B", "U+DE68">>, <<"U+D81B", "U+DE48">>>>,
      <<<<"U+D81B", "U+DE69">>, <<"U+D81B", "U+DE49">>>>,
      <<<<"U+D81B", "U+DE6A">>, <<"U+D81B", "U+DE4A">>>>,
      <<<<"U+D81B", "U+DE6B">>, <<"U+D81B", "U+DE4B">>>>,
      <<<<"U+D81B", "U+DE6C">>, <<"U+D81B", "U+DE4C">>>>,
      <<<<"U+D81B", "U+DE6D">>, <<"U+D81B", "U+DE4D">>>>,
      <<<<"U+D81B", "U+DE6E">>, <<"U+D81B", "U+DE4E">>>>,
      <<<<"U+D81B", "U+DE6F">>, <<"U+D81B", "U+DE4F">>>>,
      <<<<"U+D81B", "U+DE70">>, <<"U+D81B", "U+DE50">>>>,
      <<<<"U+D81B", "U+DE71">>, <<"U+D81B", "U+DE51">>>>,
      <<<<"U+D81B", "U+DE72">>, <<"U+D81B", "U+DE52">>>>,
      <<<<"U+D81B", "U+DE73">>, <<"U+D81B", "U+DE53">>>>,
      <<<<"U+D81B", "U+DE74">>, <<"U+D81B", "U+DE54">>>>,
      <<<<"U+D81B", "U+DE75">>, <<"U+D81B", "U+DE55">>>>,
      <<<<"U+D81B", "U+DE76">>, <<"U+D81B", "U+DE56">>>>,
      <<<<"U+D81B", "U+DE77">>, <<"U+D81B", "U+DE57">>>>,
      <<<<"U+D81B", "U+DE78">>, <<"U+D81B", "U+DE58">>>>,
      <<<<"U+D81B", "U+DE79">>, <<"U+D81B", "U+DE59">>>>,
      <<<<"U+D81B", "U+DE7A">>, <<"U+D81B", "U+DE5A">>>>,
      <<<<"U+D81B", "U+DE7B">>, <<"U+D81B", "U+DE5B">>>>,
      <<<<"U+D81B", "U+DE7C">>, <<"U+D81B", "U+DE5C">>>>,
      <<<<"U+D81B", "U+DE7D">>, <<"U+D81B", "U+DE5D">>>>,
      <<<<"U+D81B", "U+DE7E">>, <<"U+D81B", "U+DE5E">>>>,
      <<<<"U+D81B", "U+DE7F">>, <<"U+D81B", "U+DE5F">>>>,
      <<<<"U+D81B", "U+DEBB">>, <<"U+D81B", "U+DEA0">>>>,
      <<<<"U+D81B", "U+DEBC">>, <<"U+D81B", "U+DEA1">>>>,
      <<<<"U+D81B", "U+DEBD">>, <<"U+D81B", "U+DEA2">>>>,
      <<<<"U+D81B", "U+DEBE">>, <<"U+D81B", "U+DEA3">>>>,
      <<<<"U+D81B", "U+DEBF">>, <<"U+D81B", "U+DEA4">>>>,
      <<<<"U+D81B", "U+DEC0">>, <<"U+D81B", "U+DEA5">>>>,
      <<<<"U+D81B", "U+DEC1">>, <<"U+D81B", "U+DEA6">>>>,
      <<<<"U+D81B", "U+DEC2">>, <<"U+D81B", "U+DEA7">>>>,
      <<<<"U+D81B", "U+DEC3">>, <<"U+D81B", "U+DEA8">>>>,
      <<<<"U+D81B", "U+DEC4">>, <<"U+D81B", "U+DEA9">>>>,
      <<<<"U+D81B", "U+DEC5">>, <<"U+D81B", "U+DEAA">>>>,
      <<<<"U+D81B", "U+DEC6">>, <<"U+D81B", "U+DEAB">>>>,
      <<<<"U+D81B", "U+DEC7">>, <<"U+D81B", "U+DEAC">>>>,
      <<<<"U+D81B", "U+DEC8">>, <<"U+D81B", "U+DEAD">>>>,
      <<<<"U+D81B", "U+DEC9">>, <<"U+D81B", "U+DEAE">>>>,
      <<<<"U+D81B", "U+DECA">>, <<"U+D81B", "U+DEAF">>>>,
      <<<<"U+D81B", "U+DECB">>, <<"U+D81B", "U+DEB0">>>>,
      <<<<"U+D81B", "U+DECC">>, <<"U+D81B", "U+DEB1">>>>,
      <<<<"U+D81B", "U+DECD">>, <<"U+D81B", "U+DEB2">>>>,
      <<<<"U+D81B", "U+DECE">>, <<"U+D81B", "U+DEB3">>>>,
      <<<<"U+D81B", "U+DECF">>, <<"U+D81B", "U+DEB4">>>>,
      <<<<"U+D81B", "U+DED0">>, <<"U+D81B", "U+DEB5">>>>,
      <<<<"U+D81B", "U+DED1">>, <<"U+D81B", "U+DEB6">>>>,
      <<<<"U+D81B", "U+DED2">>, <<"U+D81B", "U+DEB7">>>>,
      <<<<"U+D81B", "U+DED3">>, <<"U+D81B", "U+DEB8">>>>,
      <<<<"U+D83A", "U+DD22">>, <<"U+D83A", "U+DD00">>>>,
      <<<<"U+D83A", "U+DD23">>, <<"U+D83A", "U+DD01">>>>,
      <<<<"U+D83A", "U+DD24">>, <<"U+D83A", "U+DD02">>>>,
      <<<<"U+D83A", "U+DD25">>, <<"U+D83A", "U+DD03">>>>,
      <<<<"U+D83A", "U+DD26">>, <<"U+D83A", "U+DD04">>>>,
      <<<<"U+D83A", "U+DD27">>, <<"U+D83A", "U+DD05">>>>,
      <<<<"U+D83A", "U+DD28">>, <<"U+D83A", "U+DD06">>>>,
      <<<<"U+D83A", "U+DD29">>, <<"U+D83A", "U+DD07">>>>,
      <<<<"U+D83A", "U+DD2A">>, <<"U+D83A", "U+DD08">>>>,
      <<<<"U+D83A", "U+DD2B">>, <<"U+D83A", "U+DD09">>>>,
      <<<<"U+D83A", "U+DD2C">>, <<"U+D83A", "U+DD0A">>>>,
      <<<<"U+D83A", "U+DD2D">>, <<"U+D83A", "U+DD0B">>>>,
      <<<<"U+D83A", "U+DD2E">>, <<"U+D83A", "U+DD0C">>>>,
      <<<<"U+D83A", "U+DD2F">>, <<"U+D83A", "U+DD0D">>>>,
      <<<<"U+D83A", "U+DD30">>, <<"U+D83A", "U+DD0E">>>>,
      <<<<"U+D83A", "U+DD31">>, <<"U+D83A", "U+DD0F">>>>,
      <<<<"U+D83A", "U+DD32">>, <<"U+D83A", "U+DD10">>>>,
      <<<<"U+D83A", "U+DD33">>, <<"U+D83A", "U+DD11">>>>,
      <<<<"U+D83A", "U+DD34">>, <<"U+D83A", "U+DD12">>>>,
      <<<<"U+D83A", "U+DD35">>, <<"U+D83A", "U+DD13">>>>,
      <<<<"U+D83A", "U+DD36">>, <<"U+D83A", "U+DD14">>>>,
      <<<<"U+D83A", "U+DD37">>, <<"U+D83A", "U+DD15">>>>,
      <<<<"U+D83A", "U+DD38">>, <<"U+D83A", "U+DD16">>>>,
      <<<<"U+D83A", "U+DD39">>, <<"U+D83A", "U+DD17">>>>,
      <<<<"U+D83A", "U+DD3A">>, <<"U+D83A", "U+DD18">>>>,
      <<<<"U+D83A", "U+DD3B">>, <<"U+D83A", "U+DD19">>>>,
      <<<<"U+D83A", "U+DD3C">>, <<"U+D83A", "U+DD1A">>>>,
      <<<<"U+D83A", "U+DD3D">>, <<"U+D83A", "U+DD1B">>>>,
      <<<<"U+D83A", "U+DD3E">>, <<"U+D83A", "U+DD1C">>>>,
      <<<<"U+D83A", "U+DD3F">>, <<"U+D83A", "U+DD1D">>>>,
      <<<<"U+D83A", "U+DD40">>, <<"U+D83A", "U+DD1E">>>>,
      <<<<"U+D83A", "U+DD41">>, <<"U+D83A", "U+DD1F">>>>,
      <<<<"U+D83A", "U+DD42">>, <<"U+D83A", "U+DD20">>>>,
      <<<<"U+D83A", "U+DD43">>, <<"U+D83A", "U+DD21">>>> >>

UpperMap ==
    [c \in {UpperCase[i][1] : i \in 1 .. Len(UpperCase)} |->
        UpperCase[CHOOSE i \in 1 .. Len(UpperCase) : UpperCase[i][1] = c][2]]

\* the surrogate pairs that change, and what each becomes
UpperPairMap ==
    [p \in {UpperCasePairs[i][1] : i \in 1 .. Len(UpperCasePairs)} |->
        UpperCasePairs[CHOOSE i \in 1 .. Len(UpperCasePairs) : UpperCasePairs[i][1] = p][2]]

\* the upper case of one character: one character or more
upperOf(c) == IF c \in DOMAIN UpperMap THEN UpperMap[c] ELSE <<c>>

\* w.toUpperCase()
RECURSIVE toUpperCase(_)
toUpperCase(w) ==
    IF w = <<>> THEN <<>>
    ELSE IF Len(w) >= 2 /\ <<w[1], w[2]>> \in DOMAIN UpperPairMap
         THEN UpperPairMap[<<w[1], w[2]>>] \o toUpperCase(SubSeq(w, 3, Len(w)))
         ELSE upperOf(Head(w)) \o toUpperCase(Tail(w))

RECURSIVE trimStart(_)
trimStart(w) == IF w # <<>> /\ Head(w) \in WhiteSpace THEN trimStart(Tail(w)) ELSE w

RECURSIVE trimEnd(_)
trimEnd(w) ==
    IF w # <<>> /\ w[Len(w)] \in WhiteSpace THEN trimEnd(SubSeq(w, 1, Len(w) - 1)) ELSE w

\* w.trim()
trim(w) == trimEnd(trimStart(w))

\* the filter of the load effect:
\* w.length >= 2 && w.length <= 15 && /^[A-Z]+$/.test(w)
keepsWord(w) == Len(w) >= 2 /\ Len(w) <= 15 /\ \A i \in 1 .. Len(w) : w[i] \in Letters

\* Add any post-2006 words that are commonly accepted
additions ==
    << <<"E","M","O","J","I">>, <<"E","M","O","J","I","S">>,
       <<"S","E","L","F","I","E">>, <<"S","E","L","F","I","E","S">>,
       <<"H","A","S","H","T","A","G">>, <<"H","A","S","H","T","A","G","S">> >>

\* new Set(words) for the lines of the fetched text: the lines trimmed and put in
\* upper case that pass the filter, and the additions pushed after them
wordsOf(lines) ==
    {w \in {toUpperCase(trim(l)) : l \in lines} : keepsWord(w)} \cup Range(additions)

\* the lines of a small dictionary file (text.split('\n')): words in either case,
\* with a carriage return, blanks, a byte order mark, a form feed or a no-break
\* space around them, words with a long s or a dotless i, whose upper case is a
\* letter of A-Z, a word with an accented letter, a word with a letter outside the
\* basic plane, an empty last line, a single letter, a word with a digit and a word
\* of 16 letters
DictLines ==
    { <<"U+FEFF","a","t","\r">>, <<" ","t","a"," ">>, <<"\f","T","a","U+00A0">>,
      <<"U+017F","e","l","f","i","e">>, <<"e","m","o","j","U+0131">>,
      <<"U+00E9","t","a">>, <<"U+D801","U+DC28","a","t">>,
      <<"C","a","t">>, <<"A","C","T">>, <<"T","A","T">>,
      <<"C","A","T","T","A","I","L">>,
      <<"C","A","T","T","A","I","L","S">>,
      <<>>, <<"A">>, <<"C","4","T">>, [i \in 1 .. 16 |-> "A"] }

\* the word set the load effect makes of that file
Lexicon == wordsOf(DictLines)

\* ---------------------------------------------------------------- BoardBuilder

\* bound of the exploration: the growth iterations explored one by one
MaxIter == 3

MAX_ATTEMPTS == 200
STOP_TILES == 18
CEIL_TILES == 40

\* word[i] for a 0-based index
At(word, i) == word[i + 1]

\* Pool of short common words: WORD_LIST.filter(w => w.length >= 3 && w.length <= 6)
pool == SelectSeq(WORD_LIST, LAMBDA w : Len(w) >= 3 /\ Len(w) <= 6)

\* pool.filter(w => w.length >= 3 && w.length <= 5), in any shuffled order
firstWords == {w \in Range(pool) : Len(w) >= 3 /\ Len(w) <= 5}

\* buildConnectedBoard's getLetterAt: board[r] && board[r][c], which is undefined
\* (not null) outside the grid
getLetterAtB(b, r, c) ==
    IF r \in Idx THEN (IF c \in Idx THEN b[r][c] ELSE UNDEF) ELSE UNDEF

\* the first while loop of a cross-word collection: walk back over filled cells
RECURSIVE crossStartB(_, _, _, _)
crossStartB(b, r, c, vertical) ==
    IF vertical
    THEN IF r > 0 /\ getLetterAtB(b, r - 1, c) # NULL
         THEN crossStartB(b, r - 1, c, vertical) ELSE r
    ELSE IF c > 0 /\ getLetterAtB(b, r, c - 1) # NULL
         THEN crossStartB(b, r, c - 1, vertical) ELSE c

\* the second while loop: collect letters from cur on, the new letter at (r, c)
RECURSIVE crossCollectB(_, _, _, _, _, _)
crossCollectB(b, cur, r, c, letter, vertical) ==
    IF cur < 15
    THEN LET ch == IF vertical
                   THEN (IF cur = r THEN letter ELSE getLetterAtB(b, cur, c))
                   ELSE (IF cur = c THEN letter ELSE getLetterAtB(b, r, cur))
         IN  IF ch = NULL THEN <<>>
             ELSE <<ch>> \o crossCollectB(b, cur + 1, r, c, letter, vertical)
    ELSE <<>>

\* the cross word cw collected in canPlaceWord for the new tile at (r, c)
crossWordB(b, r, c, letter, vertical) ==
    crossCollectB(b, crossStartB(b, r, c, vertical), r, c, letter, vertical)

\* the perpendicular check of canPlaceWord for one new tile
crossOkB(b, r, c, letter, horizontal) ==
    LET n1 == IF horizontal THEN getLetterAtB(b, r - 1, c) ELSE getLetterAtB(b, r, c - 1)
        n2 == IF horizontal THEN getLetterAtB(b, r + 1, c) ELSE getLetterAtB(b, r, c + 1)
    IN  IF n1 # NULL \/ n2 # NULL
        THEN LET cw == crossWordB(b, r, c, letter, horizontal)
             IN  ~(Len(cw) > 1 /\ cw \notin WORD_SET)
        ELSE TRUE

\* canPlaceWord without the perpendicular check of the new tiles
canPlaceWord_NoCrossCheck(b, word, row, col, horizontal) ==
    LET len == Len(word)
        R(i) == IF horizontal THEN row ELSE row + i
        C(i) == IF horizontal THEN col + i ELSE col
    IN  /\ IF horizontal THEN ~(col + len > 15) ELSE ~(row + len > 15)
        /\ \A i \in 0 .. (len - 1) :
              LET existing == getLetterAtB(b, R(i), C(i))
              IN  ~(existing # NULL /\ existing # At(word, i))
        /\ IF horizontal
           THEN /\ ~(col > 0 /\ getLetterAtB(b, row, col - 1) # NULL)
                /\ ~(col + len < 15 /\ getLetterAtB(b, row, col + len) # NULL)
           ELSE /\ ~(row > 0 /\ getLetterAtB(b, row - 1, col) # NULL)
                /\ ~(row + len < 15 /\ getLetterAtB(b, row + len, col) # NULL)

\* canPlaceWord without the comparison of the word with the letters it covers
canPlaceWord_NoMatchCheck(b, word, row, col, horizontal) ==
    LET len == Len(word)
        R(i) == IF horizontal THEN row ELSE row + i
        C(i) == IF horizontal THEN col + i ELSE col
    IN  /\ IF horizontal THEN ~(col + len > 15) ELSE ~(row + len > 15)
        /\ IF horizontal
           THEN /\ ~(col > 0 /\ getLetterAtB(b, row, col - 1) # NULL)
                /\ ~(col + len < 15 /\ getLetterAtB(b, row, col + len) # NULL)
           ELSE /\ ~(row > 0 /\ getLetterAtB(b, row - 1, col) # NULL)
                /\ ~(row + len < 15 /\ getLetterAtB(b, row + len, col) # NULL)
        /\ \A i \in 0 .. (len - 1) :
              \/ getLetterAtB(b, R(i), C(i)) # NULL
              \/ crossOkB(b, R(i), C(i), At(word, i), horizontal)

canPlaceWord(b, word, row, col, horizontal) ==
    LET len == Len(word)
        R(i) == IF horizontal THEN row ELSE row + i
        C(i) == IF horizontal THEN col + i ELSE col
    IN  /\ IF horizontal THEN ~(col + len > 15) ELSE ~(row + len > 15)
        /\ \A i \in 0 .. (len - 1) :
              LET existing == getLetterAtB(b, R(i), C(i))
              IN  ~(existing # NULL /\ existing # At(word, i))
        /\ IF horizontal
           THEN /\ ~(col > 0 /\ getLetterAtB(b, row, col - 1) # NULL)
                /\ ~(col + len < 15 /\ getLetterAtB(b, row, col + len) # NULL)
           ELSE /\ ~(row > 0 /\ getLetterAtB(b, row - 1, col) # NULL)
                /\ ~(row + len < 15 /\ getLetterAtB(b, row + len, col) # NULL)
        /\ \A i \in 0 .. (len - 1) :
              \/ getLetterAtB(b, R(i), C(i)) # NULL
              \/ crossOkB(b, R(i), C(i), At(word, i), horizontal)

\* the cells placeWord writes: cell -> index in the word
covers(word, row, col, horizontal, r, c) ==
    IF horizontal
    THEN r = row /\ c >= col /\ c < col + Len(word)
    ELSE c = col /\ r >= row /\ r < row + Len(word)

\* placeWord's return value
placeWordOk(word) == word \in WORD_SET

\* the board after placeWord
placeWordBoard(b, word, row, col, horizontal) ==
    IF ~placeWordOk(word) THEN b
    ELSE [r \in Idx |-> [c \in Idx |->
            IF covers(word, row, col, horizontal, r, c)
            THEN At(word, IF horizontal THEN c - col ELSE r - row)
            ELSE b[r][c]]]

\* placeWord marking every cell of the word but its last
placeWordUsed_ButLast(pu, word, row, col, horizontal) ==
    IF ~placeWordOk(word) THEN pu
    ELSE pu \cup {<<r, c>> \in Idx \X Idx :
                    covers(SubSeq(word, 1, Len(word) - 1), row, col, horizontal, r, c)}

\* premiumsUsed after placeWord
placeWordUsed(pu, word, row, col, horizontal) ==
    IF ~placeWordOk(word) THEN pu
    ELSE pu \cup {<<r, c>> \in Idx \X Idx : covers(word, row, col, horizontal, r, c)}

sharesLetter(b, word, row, col, horizontal) ==
    \E i \in 0 .. (Len(word) - 1) :
        getLetterAtB(b, IF horizontal THEN row ELSE row + i,
                        IF horizontal THEN col + i ELSE col) # NULL

\* the tiles list of the growth loop
tiles(b) == {[r |-> r, c |-> c, letter |-> b[r][c]] : <<r, c>> \in
                {p \in Idx \X Idx : b[p[1]][p[2]] # NULL}}

FilledCount(b) == Cardinality({p \in Idx \X Idx : b[p[1]][p[2]] # NULL})

\* the first word laid to the right of the centre square
seedCol_Right(w) == 8

\* Place horizontally centered on row 7: the column of the first letter
seedCol(w) == 7 - (Len(w) \div 2)

\* 1) Place first word through center
BuildSeed ==
    /\ bpc = "seed"
    /\ IF firstWords = {}
       THEN /\ bpc' = "failed"
            /\ UNCHANGED <<board, premiumsUsed>>
       ELSE \E w \in firstWords :
              LET col == seedCol(w)
              IN  /\ col >= 0 /\ col + Len(w) <= 15
                  /\ placeWordOk(w)
                  /\ board' = placeWordBoard(board, w, 7, col, TRUE)
                  /\ premiumsUsed' = placeWordUsed(premiumsUsed, w, 7, col, TRUE)
                  /\ bpc' = "grow"
    /\ UNCHANGED <<WORD_SET, attempts, tileCountSeen>>
    /\ UNCHANGED evars
    /\ UNCHANGED avars

\* the stop heuristic's tileCount after a committed placement
tileCount(b2, nTiles, word, row, col, horizontal, matchPositions) ==
    nTiles + Len(word)
      - Cardinality({i \in matchPositions :
            getLetterAtB(b2, IF horizontal THEN row ELSE row + i,
                             IF horizontal THEN col + i ELSE col) # NULL})

\* the choices of one growth iteration: word, anchor, matchIdx, horizontal
\* and what the iteration does with them
growRow(anchor, matchIdx, horizontal) == IF horizontal THEN anchor.r ELSE anchor.r - matchIdx
growCol(anchor, matchIdx, horizontal) == IF horizontal THEN anchor.c - matchIdx ELSE anchor.c

matchPositionsOf(word, anchor) ==
    {i \in 0 .. (Len(word) - 1) : At(word, i) = anchor.letter}

\* the iteration reaches placeWord (no continue, canPlaceWord and sharesLetter hold)
growCommits(b, word, anchor, matchIdx, horizontal) ==
    LET row == growRow(anchor, matchIdx, horizontal)
        col == growCol(anchor, matchIdx, horizontal)
    IN  /\ ~(row < 0 \/ col < 0)
        /\ ~(horizontal /\ col + Len(word) > 15)
        /\ ~(~horizontal /\ row + Len(word) > 15)
        /\ canPlaceWord(b, word, row, col, horizontal)
        /\ sharesLetter(b, word, row, col, horizontal)

\* some choice of word, anchor, matchIdx and orientation commits nothing
growCanFail(b) ==
    \E word \in Range(pool), anchor \in tiles(b) :
        \/ matchPositionsOf(word, anchor) = {}
        \/ \E matchIdx \in matchPositionsOf(word, anchor), horizontal \in BOOLEAN :
              ~growCommits(b, word, anchor, matchIdx, horizontal)

\* an iteration can pass and leave the board and premiumsUsed as they are, without
\* leaving the loop: some choice of word, anchor, matchIdx and orientation commits
\* nothing, or commits a word that lies on the board already (placeWord changes
\* neither the board nor premiumsUsed) with a tileCount below the ceiling
growCanIdle(b, pu) ==
    \/ growCanFail(b)
    \/ \E word \in Range(pool), anchor \in tiles(b) :
          \E matchIdx \in matchPositionsOf(word, anchor), horizontal \in BOOLEAN :
              LET row == growRow(anchor, matchIdx, horizontal)
                  col == growCol(anchor, matchIdx, horizontal)
              IN  /\ growCommits(b, word, anchor, matchIdx, horizontal)
                  /\ placeWordBoard(b, word, row, col, horizontal) = b
                  /\ placeWordUsed(pu, word, row, col, horizontal) = pu
                  /\ tileCount(b, Cardinality(tiles(b)), word, row, col, horizontal,
                               matchPositionsOf(word, anchor)) < CEIL_TILES

\* the growth loop with one iteration too many
growLoopContinues_OneMore(a) == a <= MAX_ATTEMPTS

\* while (attempts < 200)
growLoopContinues(a) == a < MAX_ATTEMPTS

\* the value of attempts with which the growth loop runs out
loopExit ==
    CHOOSE a \in 0 .. MAX_ATTEMPTS + 1 :
        ~growLoopContinues(a) /\ \A x \in 0 .. a - 1 : growLoopContinues(x)

\* 2) one iteration of the growth loop
BuildGrow ==
    /\ bpc = "grow"
    /\ growLoopContinues(attempts)
    /\ attempts < MaxIter
    /\ attempts' = attempts + 1
    /\ IF tiles(board) = {}
       THEN /\ bpc' = "done"
            /\ UNCHANGED <<board, premiumsUsed, tileCountSeen>>
       ELSE \E word \in Range(pool), anchor \in tiles(board) :
            LET matchPositions == matchPositionsOf(word, anchor)
            IN  IF matchPositions = {}
                THEN UNCHANGED <<bpc, board, premiumsUsed, tileCountSeen>>
                ELSE \E matchIdx \in matchPositions, horizontal \in BOOLEAN :
                     LET row == growRow(anchor, matchIdx, horizontal)
                         col == growCol(anchor, matchIdx, horizontal)
                     IN  IF growCommits(board, word, anchor, matchIdx, horizontal)
                         THEN LET b2 == placeWordBoard(board, word, row, col, horizontal)
                                  tc == tileCount(b2, Cardinality(tiles(board)), word,
                                                  row, col, horizontal, matchPositions)
                              IN  /\ board' = b2
                                  /\ tileCountSeen' = tc
                                  /\ premiumsUsed' =
                                        placeWordUsed(premiumsUsed, word, row, col, horizontal)
                                  /\ \/ /\ tc >= STOP_TILES
                                        /\ bpc' = "done"
                                     \/ /\ tc >= CEIL_TILES
                                        /\ bpc' = "done"
                                     \/ /\ tc < CEIL_TILES
                                        /\ bpc' = "grow"
                         ELSE UNCHANGED <<bpc, board, premiumsUsed, tileCountSeen>>
    /\ UNCHANGED WORD_SET
    /\ UNCHANGED evars
    /\ UNCHANGED avars

\* all the remaining iterations of the growth loop, none of which commits a word
BuildGrowIdle ==
    /\ bpc = "grow"
    /\ growLoopContinues(attempts)
    /\ tiles(board) # {}
    /\ TRUE = growCanFail(board)
    /\ attempts' = loopExit
    /\ UNCHANGED <<WORD_SET, bpc, board, premiumsUsed, tileCountSeen>>
    /\ UNCHANGED evars
    /\ UNCHANGED avars

\* the loop ends when attempts reaches 200: return { board, premiumsUsed }
BuildReturn ==
    /\ bpc = "grow"
    /\ ~growLoopContinues(attempts)
    /\ bpc' = "done"
    /\ UNCHANGED <<WORD_SET, board, premiumsUsed, attempts, tileCountSeen>>
    /\ UNCHANGED evars
    /\ UNCHANGED avars

\* null for scenario / s, for offResult / defResult and for boardData
NoScenario == [isNull |-> TRUE]
NoOutcome == [isNull |-> TRUE]
NoBoardData == [isNull |-> TRUE]

\* useState({ played: 0, offOk: 0, defOk: 0 })
NoStats == [played |-> 0, offOk |-> 0, defOk |-> 0]

\* the app is not part of the run
AppOff ==
    /\ apc = "off"
    /\ dpc = "none"
    /\ wordSetCell = {}
    /\ isLoadingDictCell = TRUE
    /\ isLoadingDict = TRUE
    /\ loading = FALSE
    /\ scenario = NoScenario
    /\ round = "offense"
    /\ offResult = NoOutcome
    /\ defResult = NoOutcome
    /\ errorMsg = NULL
    /\ genCalls = 0
    /\ loadS = NoScenario
    /\ buildCalls = 0
    /\ boardData = NoBoardData
    /\ selRack = 0
    /\ drag = 0
    /\ stats = NoStats

BuildInit ==
    /\ WORD_SET = Lexicon
    /\ bpc = "seed"
    /\ board = EmptyBoard
    /\ premiumsUsed = {}
    /\ attempts = 0
    /\ tileCountSeen = 0
    /\ epc = "idle"
    /\ eboard = EmptyBoard
    /\ eused = {}
    /\ rack = <<>>
    /\ plays = <<>>
    /\ placed = <<>>
    /\ vplay = <<>>
    /\ vmain = <<>>
    /\ vres = <<>>
    /\ sarg = <<>>
    /\ sres = 0
    /\ dplay = <<>>
    /\ dres = 0
    /\ AppOff

BuildNext == BuildSeed \/ BuildGrow \/ BuildGrowIdle \/ BuildReturn

SpecBuild == BuildInit /\ [][BuildNext]_vars

\* every maximal run of two or more filled cells, as the set of words it spells
RECURSIVE runFrom(_, _, _, _)
runFrom(b, r, c, horizontal) ==
    IF r < 15 /\ c < 15 /\ b[r][c] # NULL
    THEN <<b[r][c]>> \o (IF horizontal THEN runFrom(b, r, c + 1, horizontal)
                         ELSE runFrom(b, r + 1, c, horizontal))
    ELSE <<>>

runStarts(b, horizontal) ==
    {p \in Idx \X Idx :
        /\ b[p[1]][p[2]] # NULL
        /\ IF horizontal THEN (p[2] = 0 \/ b[p[1]][p[2] - 1] = NULL)
           ELSE (p[1] = 0 \/ b[p[1] - 1][p[2]] = NULL)}

Runs(b) ==
    {runFrom(b, p[1], p[2], TRUE) : p \in runStarts(b, TRUE)}
      \cup {runFrom(b, p[1], p[2], FALSE) : p \in runStarts(b, FALSE)}

AllRunsValid(b) == \A w \in Runs(b) : Len(w) >= 2 => w \in WORD_SET

\* ---------------------------------------------------------------- ScoringEngine

BINGO_TILES == 7
BINGO_BONUS == 50

getPremium(r, c) == IF BOARD_TEMPLATE[r][c] = "." THEN NULL ELSE BOARD_TEMPLATE[r][c]

\* TV[letter] || 0
letterValue(l) == IF l \in DOMAIN TV THEN TV[l] ELSE 0

\* scoreLoop with every premium square of a new tile counted, consumed or not
RECURSIVE scoreLoop_IgnoreUsed(_, _, _, _, _, _, _)
scoreLoop_IgnoreUsed(word, positions, b, pu, i, wordScore, wordMult) ==
    IF i >= Len(word) THEN wordScore * wordMult
    ELSE LET r == positions[i + 1][1]
             c == positions[i + 1][2]
             base == letterValue(At(word, i))
             isNew == b[r][c] = NULL
             prem == IF isNew THEN getPremium(r, c) ELSE NULL
             letterVal == IF prem = "DL" THEN base * 2
                          ELSE IF prem = "TL" THEN base * 3 ELSE base
             mult == IF prem = "DW" THEN wordMult * 2
                     ELSE IF prem = "TW" THEN wordMult * 3 ELSE wordMult
         IN  scoreLoop_IgnoreUsed(word, positions, b, pu, i + 1, wordScore + letterVal, mult)

\* the loop of scoreOneWord from index i on, carrying wordScore and wordMult
RECURSIVE scoreLoop(_, _, _, _, _, _, _)
scoreLoop(word, positions, b, pu, i, wordScore, wordMult) ==
    IF i >= Len(word) THEN wordScore * wordMult
    ELSE LET r == positions[i + 1][1]
             c == positions[i + 1][2]
             base == letterValue(At(word, i))
             isNew == b[r][c] = NULL
             prem == IF isNew /\ <<r, c>> \notin pu THEN getPremium(r, c) ELSE NULL
             letterVal == IF prem = "DL" THEN base * 2
                          ELSE IF prem = "TL" THEN base * 3 ELSE base
             mult == IF prem = "DW" THEN wordMult * 2
                     ELSE IF prem = "TW" THEN wordMult * 3 ELSE wordMult
         IN  scoreLoop(word, positions, b, pu, i + 1, wordScore + letterVal, mult)

scoreOneWord(word, positions, b, pu) == scoreLoop(word, positions, b, pu, 0, 0, 1)

\* scorePlay's cross-word collection for the new tile at (r, c): first loop
RECURSIVE crossStartS(_, _, _, _)
crossStartS(b, r, c, vertical) ==
    IF vertical
    THEN IF r > 0 /\ b[r - 1][c] # NULL THEN crossStartS(b, r - 1, c, vertical) ELSE r
    ELSE IF c > 0 /\ b[r][c - 1] # NULL THEN crossStartS(b, r, c - 1, vertical) ELSE c

\* second loop: crossWord and crossPositions, as a sequence of <<letter, <<r, c>>>>
RECURSIVE crossCollectS(_, _, _, _, _, _)
crossCollectS(b, cur, r, c, letter, vertical) ==
    IF cur < 15
    THEN LET ch == IF vertical THEN (IF cur = r THEN letter ELSE b[cur][c])
                   ELSE (IF cur = c THEN letter ELSE b[r][cur])
             pos == IF vertical THEN <<cur, c>> ELSE <<r, cur>>
         IN  IF ch = NULL THEN <<>>
             ELSE <<<<ch, pos>>>> \o crossCollectS(b, cur + 1, r, c, letter, vertical)
    ELSE <<>>

crossS(b, r, c, letter, vertical) ==
    crossCollectS(b, crossStartS(b, r, c, vertical), r, c, letter, vertical)

\* the score scorePlay adds for the cell at index i of the main word
crossScore(word, positions, b, pu, isHorizontal, i) ==
    LET r == positions[i + 1][1]
        c == positions[i + 1][2]
    IN  IF b[r][c] # NULL THEN 0
        ELSE LET cross == crossS(b, r, c, At(word, i), isHorizontal)
                 crossWord == [k \in 1 .. Len(cross) |-> cross[k][1]]
                 crossPositions == [k \in 1 .. Len(cross) |-> cross[k][2]]
             IN  IF Len(crossWord) > 1
                 THEN scoreOneWord(crossWord, crossPositions, b, pu)
                 ELSE 0

RECURSIVE crossScoreSum(_, _, _, _, _, _)
crossScoreSum(word, positions, b, pu, isHorizontal, i) ==
    IF i >= Len(word) THEN 0
    ELSE crossScore(word, positions, b, pu, isHorizontal, i)
           + crossScoreSum(word, positions, b, pu, isHorizontal, i + 1)

\* the Bingo bonus given to every word of seven cells
bingoBonus_AllCells(positions, b) ==
    IF Len(positions) = BINGO_TILES THEN BINGO_BONUS ELSE 0

\* the Bingo bonus of scorePlay
bingoBonus(positions, b) ==
    LET newTiles == Cardinality({k \in 1 .. Len(positions) :
                                    b[positions[k][1]][positions[k][2]] = NULL})
    IN  IF newTiles = BINGO_TILES THEN BINGO_BONUS ELSE 0

scorePlay(word, positions, b, pu, isHorizontal) ==
    scoreOneWord(word, positions, b, pu)
      + crossScoreSum(word, positions, b, pu, isHorizontal, 0)
      + bingoBonus(positions, b)

\* ---------------------------------------------------------------- defense heuristic

Abs(x) == IF x < 0 THEN 0 - x ELSE x

\* Reward blocking premium squares (especially TW)
premiumReward(r, c) ==
    LET prem == getPremium(r, c)
    IN  IF prem = "TW" THEN 60
        ELSE IF prem = "DW" THEN 25
        ELSE IF prem = "TL" THEN 15
        ELSE IF prem = "DL" THEN 8 ELSE 0

\* the TW squares whose lane the new tile at (r, c) opens
openLanes(r, c) ==
    {tw \in TWS : (r = tw[1] \/ c = tw[2]) /\ Abs(r - tw[1]) + Abs(c - tw[2]) <= 5}

\* twice what the three forEach loops of defenseScore add for the positions from
\* index k on (the distance term is dist * 1.5)
RECURSIVE defenseSumX2(_, _, _)
defenseSumX2(positions, b, k) ==
    IF k > Len(positions) THEN 0
    ELSE LET r == positions[k][1]
             c == positions[k][2]
             here == IF b[r][c] # NULL THEN 0
                     ELSE 2 * premiumReward(r, c)
                            - 2 * 12 * Cardinality(openLanes(r, c))
                            - 3 * (Abs(r - 7) + Abs(c - 7))
         IN  here + defenseSumX2(positions, b, k + 1)

\* twice defenseScore(play, board), which is a multiple of one half
defenseScoreX2(play, b) ==
    defenseSumX2(play.positions, b, 1) - 2 * (Len(play.word) * 2)

\* ---------------------------------------------------------------- MoveEnumerator

\* findAllValidPlays's getLetterAt: null outside the grid
getLetterAt(b, r, c) ==
    IF r >= 0 /\ r < 15 /\ c >= 0 /\ c < 15 THEN b[r][c] ELSE NULL

\* rackCount: letter -> number of tiles of the rack
rackCountOf(rk) ==
    [l \in Range(rk) |-> Cardinality({k \in 1 .. Len(rk) : rk[k] = l})]

wordPositions(word, startR, startC, isH) ==
    [k \in 1 .. Len(word) |->
        IF isH THEN <<startR, startC + k - 1>> ELSE <<startR + k - 1, startC>>]

\* letterLoop that never takes a tile out of needed
RECURSIVE letterLoop_NoDecrement(_, _, _, _, _, _, _, _, _)
letterLoop_NoDecrement(b, word, startR, startC, isH, i, needed, touchesExisting, usesNewTile) ==
    IF i >= Len(word)
    THEN [valid |-> TRUE, touchesExisting |-> touchesExisting, usesNewTile |-> usesNewTile]
    ELSE LET r == IF isH THEN startR ELSE startR + i
             c == IF isH THEN startC + i ELSE startC
             l == At(word, i)
             existing == b[r][c]
             broken == [valid |-> FALSE, touchesExisting |-> touchesExisting,
                        usesNewTile |-> usesNewTile]
         IN  IF existing # NULL
             THEN IF existing # l THEN broken
                  ELSE letterLoop_NoDecrement(b, word, startR, startC, isH, i + 1, needed,
                                              TRUE, usesNewTile)
             ELSE IF l \notin DOMAIN needed \/ needed[l] <= 0 THEN broken
                  ELSE letterLoop_NoDecrement(b, word, startR, startC, isH, i + 1,
                                              needed, touchesExisting, TRUE)

\* the letter loop of one candidate placement from index i on, carrying needed,
\* touchesExisting and usesNewTile; valid is FALSE after a break
RECURSIVE letterLoop(_, _, _, _, _, _, _, _, _)
letterLoop(b, word, startR, startC, isH, i, needed, touchesExisting, usesNewTile) ==
    IF i >= Len(word)
    THEN [valid |-> TRUE, touchesExisting |-> touchesExisting, usesNewTile |-> usesNewTile]
    ELSE LET r == IF isH THEN startR ELSE startR + i
             c == IF isH THEN startC + i ELSE startC
             l == At(word, i)
             existing == b[r][c]
             broken == [valid |-> FALSE, touchesExisting |-> touchesExisting,
                        usesNewTile |-> usesNewTile]
         IN  IF existing # NULL
             THEN IF existing # l THEN broken
                  ELSE letterLoop(b, word, startR, startC, isH, i + 1, needed,
                                  TRUE, usesNewTile)
             ELSE IF l \notin DOMAIN needed \/ needed[l] <= 0 THEN broken
                  ELSE letterLoop(b, word, startR, startC, isH, i + 1,
                                  [needed EXCEPT ![l] = @ - 1], touchesExisting, TRUE)

\* the extension test left out
noExtension_None(b, word, startR, startC, isH) == TRUE

\* No extension beyond word ends in main direction
noExtension(b, word, startR, startC, isH) ==
    IF isH
    THEN /\ ~(startC > 0 /\ getLetterAt(b, startR, startC - 1) # NULL)
         /\ ~(startC + Len(word) < 15 /\ getLetterAt(b, startR, startC + Len(word)) # NULL)
    ELSE /\ ~(startR > 0 /\ getLetterAt(b, startR - 1, startC) # NULL)
         /\ ~(startR + Len(word) < 15 /\ getLetterAt(b, startR + Len(word), startC) # NULL)

RECURSIVE crossStartE(_, _, _, _)
crossStartE(b, r, c, vertical) ==
    IF vertical
    THEN IF r > 0 /\ getLetterAt(b, r - 1, c) # NULL
         THEN crossStartE(b, r - 1, c, vertical) ELSE r
    ELSE IF c > 0 /\ getLetterAt(b, r, c - 1) # NULL
         THEN crossStartE(b, r, c - 1, vertical) ELSE c

RECURSIVE crossCollectE(_, _, _, _, _, _)
crossCollectE(b, cur, r, c, letter, vertical) ==
    IF cur < 15
    THEN LET ch == IF vertical
                   THEN (IF cur = r THEN letter ELSE getLetterAt(b, cur, c))
                   ELSE (IF cur = c THEN letter ELSE getLetterAt(b, r, cur))
         IN  IF ch = NULL THEN <<>>
             ELSE <<ch>> \o crossCollectE(b, cur + 1, r, c, letter, vertical)
    ELSE <<>>

\* Check cross-words formed by new tiles: the check of the tile at index i
crossValidAt(b, word, startR, startC, isH, i) ==
    LET r == IF isH THEN startR ELSE startR + i
        c == IF isH THEN startC + i ELSE startC
    IN  IF b[r][c] # NULL THEN TRUE
        ELSE LET n1 == IF isH THEN getLetterAt(b, r - 1, c) ELSE getLetterAt(b, r, c - 1)
                 n2 == IF isH THEN getLetterAt(b, r + 1, c) ELSE getLetterAt(b, r, c + 1)
             IN  IF n1 # NULL \/ n2 # NULL
                 THEN LET cw == crossCollectE(b, crossStartE(b, r, c, isH), r, c,
                                              At(word, i), isH)
                      IN  ~(Len(cw) > 1 /\ cw \notin WORD_SET)
                 ELSE TRUE

\* candidateOk without the usesNewTile test
candidateOk_NoNewTile(b, rk, word, isH, startR, startC) ==
    /\ Len(word) >= 2
    /\ ~(isH /\ startC + Len(word) > 15)
    /\ ~(~isH /\ startR + Len(word) > 15)
    /\ LET res == letterLoop(b, word, startR, startC, isH, 0, rackCountOf(rk), FALSE, FALSE)
       IN  res.valid /\ res.touchesExisting
    /\ noExtension(b, word, startR, startC, isH)
    /\ \A i \in 0 .. (Len(word) - 1) : crossValidAt(b, word, startR, startC, isH, i)

\* the candidate (word, orientation, start) passes every check of the loop body
candidateOk(b, rk, word, isH, startR, startC) ==
    /\ Len(word) >= 2
    /\ ~(isH /\ startC + Len(word) > 15)
    /\ ~(~isH /\ startR + Len(word) > 15)
    /\ LET res == letterLoop(b, word, startR, startC, isH, 0, rackCountOf(rk), FALSE, FALSE)
       IN  res.valid /\ res.touchesExisting /\ res.usesNewTile
    /\ noExtension(b, word, startR, startC, isH)
    /\ \A i \in 0 .. (Len(word) - 1) : crossValidAt(b, word, startR, startC, isH, i)

\* the loops' order: word (WORD_LIST), horizontal 0 then 1, startR, startC
candBefore(s, t) ==
    \/ s[1] < t[1]
    \/ s[1] = t[1] /\ s[2] < t[2]
    \/ s[1] = t[1] /\ s[2] = t[2] /\ s[3] < t[3]
    \/ s[1] = t[1] /\ s[2] = t[2] /\ s[3] = t[3] /\ s[4] < t[4]

\* Deduplicate: keep the first play of each key word|row|col|horizontal
dedup(ps) ==
    LET key(p) == <<p.word, p.row, p.col, p.horizontal>>
        keep == {k \in 1 .. Len(ps) : \A j \in 1 .. (k - 1) : key(ps[j]) # key(ps[k])}
        nth(i) == CHOOSE k \in keep : Cardinality({j \in keep : j < k}) = i - 1
    IN  [i \in 1 .. Cardinality(keep) |-> ps[nth(i)]]

findAllValidPlays(b, rk, pu) ==
    LET wl == WORD_LIST
        cands == {t \in (1 .. Len(wl)) \X {0, 1} \X Idx \X Idx :
                     candidateOk(b, rk, wl[t[1]], t[2] = 1, t[3], t[4])}
        nth(i) == CHOOSE t \in cands :
                     Cardinality({s \in cands : candBefore(s, t)}) = i - 1
        play(t) == LET word == wl[t[1]]
                       isH == t[2] = 1
                       positions == wordPositions(word, t[3], t[4], isH)
                   IN  [word |-> word, row |-> t[3], col |-> t[4], horizontal |-> isH,
                        score |-> scorePlay(word, positions, b, pu, isH),
                        positions |-> positions]
    IN  dedup([i \in 1 .. Cardinality(cands) |-> play(nth(i))])

\* ---------------------------------------------------------------- PlacementValidator

ERR_EMPTY == "Place at least one tile."
ERR_SHAPE == "Tiles must all be in one row or one column."
ERR_NO_WORD == "No word formed."
ERR_GAP == "There is a gap in your word."
ERR_SHORT == "Word must be at least 2 letters."
ERR_NOT_WORD == "\"${word}\" is not a valid word."
ERR_NOT_WORD_COMBINED == "\"${word}\" is not a valid word. (Your letters ...)"
ERR_CONNECT == "Your word must connect to the existing board."
ERR_CROSS == "Cross-word \"${cw}\" is not valid."

\* { valid: false, error }, with the word a message names
failure(error, word) ==
    [valid |-> FALSE, error |-> error, word |-> word, positions |-> <<>>,
     horizontal |-> NULL, score |-> 0]

\* { valid: true, word, positions, horizontal, score }
success(word, positions, horizontal, score) ==
    [valid |-> TRUE, error |-> NULL, word |-> word, positions |-> positions,
     horizontal |-> horizontal, score |-> score]

\* The placed-tiles object is the sequence of its entries <<key, letter>>, a key
\* <<r, c>> at most once, in the order the keys were inserted.

\* Object.keys(placed): the keys in insertion order
keysOf(placedObj) == [i \in 1 .. Len(placedObj) |-> placedObj[i][1]]

\* placed[key] for the keys of the object
lettersOf(placedObj) ==
    [k \in {placedObj[i][1] : i \in 1 .. Len(placedObj)} |->
        placedObj[CHOOSE i \in 1 .. Len(placedObj) : placedObj[i][1] = k][2]]

SetMin(S) == CHOOSE x \in S : \A y \in S : x <= y
SetMax(S) == CHOOSE x \in S : \A y \in S : x >= y

\* the two while loops of extractWord that widen [min, max] over board letters
RECURSIVE extendMin(_, _, _, _)
extendMin(b, line, m, horizontal) ==
    IF m > 0 /\ (IF horizontal THEN b[line][m - 1] ELSE b[m - 1][line]) # NULL
    THEN extendMin(b, line, m - 1, horizontal) ELSE m

RECURSIVE extendMax(_, _, _, _)
extendMax(b, line, m, horizontal) ==
    IF m < 14 /\ (IF horizontal THEN b[line][m + 1] ELSE b[m + 1][line]) # NULL
    THEN extendMax(b, line, m + 1, horizontal) ELSE m

\* extractWord(horizontal): [isNull |-> TRUE] for a gap (return null), else the
\* positions, a sequence of [r, c, letter]
extractWord(b, placedObj, horizontal) ==
    LET coords == keysOf(placedObj)
        pl == lettersOf(placedObj)
        line == IF horizontal THEN coords[1][1] ELSE coords[1][2]
        along == {IF horizontal THEN k[2] ELSE k[1] : k \in DOMAIN pl}
        lo == extendMin(b, line, SetMin(along), horizontal)
        hi == extendMax(b, line, SetMax(along), horizontal)
        cell(x) == IF horizontal THEN <<line, x>> ELSE <<x, line>>
        letter(x) == IF cell(x) \in DOMAIN pl THEN pl[cell(x)]
                     ELSE b[cell(x)[1]][cell(x)[2]]
    IN  IF \E x \in lo .. hi : letter(x) = NULL
        THEN [isNull |-> TRUE, positions |-> <<>>]
        ELSE [isNull |-> FALSE, positions |->
                [k \in 1 .. (hi - lo + 1) |->
                    [r |-> cell(lo + k - 1)[1], c |-> cell(lo + k - 1)[2],
                     letter |-> letter(lo + k - 1)]]]

\* chooseSingle with the vertical run preferred on a tie
chooseSingle_TieVertical(hW, vW) ==
    IF ~hW.isNull /\ ~vW.isNull
    THEN IF Len(vW.positions) >= Len(hW.positions)
         THEN [error |-> NULL, isH |-> FALSE, wordPositions |-> vW]
         ELSE [error |-> NULL, isH |-> TRUE, wordPositions |-> hW]
    ELSE IF ~hW.isNull
    THEN [error |-> NULL, isH |-> TRUE, wordPositions |-> hW]
    ELSE IF ~vW.isNull
    THEN [error |-> NULL, isH |-> FALSE, wordPositions |-> vW]
    ELSE [error |-> ERR_NO_WORD, isH |-> NULL, wordPositions |-> hW]

\* Single tile: try both directions, pick whichever forms a longer word
chooseSingle(hW, vW) ==
    IF ~hW.isNull /\ ~vW.isNull
    THEN IF Len(vW.positions) > Len(hW.positions)
         THEN [error |-> NULL, isH |-> FALSE, wordPositions |-> vW]
         ELSE [error |-> NULL, isH |-> TRUE, wordPositions |-> hW]
    ELSE IF ~hW.isNull
    THEN [error |-> NULL, isH |-> TRUE, wordPositions |-> hW]
    ELSE IF ~vW.isNull
    THEN [error |-> NULL, isH |-> FALSE, wordPositions |-> vW]
    ELSE [error |-> ERR_NO_WORD, isH |-> NULL, wordPositions |-> hW]

\* the shape of the placement and the main word: [error, isH, wordPositions]
chooseMain(b, placedObj) ==
    LET coords == keysOf(placedObj)
        rows == {coords[i][1] : i \in 1 .. Len(coords)}
        cols == {coords[i][2] : i \in 1 .. Len(coords)}
    IN  IF Cardinality(rows) = 1 /\ Cardinality(cols) = 1
        THEN chooseSingle(extractWord(b, placedObj, TRUE), extractWord(b, placedObj, FALSE))
        ELSE IF Cardinality(rows) = 1
        THEN [error |-> NULL, isH |-> TRUE,
              wordPositions |-> extractWord(b, placedObj, TRUE)]
        ELSE IF Cardinality(cols) = 1
        THEN [error |-> NULL, isH |-> FALSE,
              wordPositions |-> extractWord(b, placedObj, FALSE)]
        ELSE [error |-> ERR_SHAPE, isH |-> NULL,
              wordPositions |-> [isNull |-> TRUE, positions |-> <<>>]]

\* the perpendicular word cw collected for the new tile at (r, c)
RECURSIVE crossStartV(_, _, _, _)
crossStartV(b, r, c, vertical) ==
    IF vertical
    THEN IF r > 0 /\ b[r - 1][c] # NULL THEN crossStartV(b, r - 1, c, vertical) ELSE r
    ELSE IF c > 0 /\ b[r][c - 1] # NULL THEN crossStartV(b, r, c - 1, vertical) ELSE c

RECURSIVE crossCollectV(_, _, _, _, _, _)
crossCollectV(b, cur, r, c, letter, vertical) ==
    IF cur < 15
    THEN LET ch == IF vertical THEN (IF cur = r THEN letter ELSE b[cur][c])
                   ELSE (IF cur = c THEN letter ELSE b[r][cur])
         IN  IF ch = NULL THEN <<>>
             ELSE <<ch>> \o crossCollectV(b, cur + 1, r, c, letter, vertical)
    ELSE <<>>

crossWordV(b, p, isH) ==
    crossCollectV(b, crossStartV(b, p.r, p.c, isH), p.r, p.c, p.letter, isH)

\* touchesExisting without the test of the board
touchesExistingV_Always(b, wp) == TRUE

\* Must touch at least one pre-existing tile
touchesExistingV(b, wp) == \E k \in 1 .. Len(wp) : b[wp[k].r][wp[k].c] # NULL

\* Check if any NEW tile forms a cross-word (which counts as connection)
formsValidCrossWord(b, wp, isH) ==
    \E k \in 1 .. Len(wp) :
        /\ b[wp[k].r][wp[k].c] = NULL
        /\ LET cw == crossWordV(b, wp[k], isH)
           IN  Len(cw) > 1 /\ cw \in WORD_SET

\* no cross word found invalid
badCrossIndices_None(b, wp, isH) == {}

\* Validate all cross-words: the indices of the new tiles whose cross word is invalid
badCrossIndices(b, wp, isH) ==
    {k \in 1 .. Len(wp) :
        /\ b[wp[k].r][wp[k].c] = NULL
        /\ LET cw == crossWordV(b, wp[k], isH)
           IN  Len(cw) > 1 /\ cw \notin WORD_SET}

\* keys.map(k => placed[k]): the letters of the placed tiles, in the order of the keys
placedLettersOf(placedObj) ==
    [k \in 1 .. Len(keysOf(placedObj)) |-> lettersOf(placedObj)[keysOf(placedObj)[k]]]

\* validatePlacement from the dictionary test of the main word on
validateWord(b, placedObj, pu, isH, wp, word, posArr) ==
    IF word \notin WORD_SET
    THEN IF word # placedLettersOf(placedObj)
         THEN failure(ERR_NOT_WORD_COMBINED, word)
         ELSE failure(ERR_NOT_WORD, word)
    ELSE IF ~touchesExistingV(b, wp) /\ ~formsValidCrossWord(b, wp, isH)
    THEN failure(ERR_CONNECT, <<>>)
    ELSE IF badCrossIndices(b, wp, isH) # {}
    THEN failure(ERR_CROSS, crossWordV(b, wp[SetMin(badCrossIndices(b, wp, isH))], isH))
    ELSE success(word, posArr, isH, scorePlay(word, posArr, b, pu, isH))

\* validatePlacement once the shape and the main word are known
validateMain(b, placedObj, pu, main) ==
    IF main.error # NULL THEN failure(main.error, <<>>)
    ELSE IF main.wordPositions.isNull THEN failure(ERR_GAP, <<>>)
    ELSE IF Len(main.wordPositions.positions) < 2 THEN failure(ERR_SHORT, <<>>)
    ELSE validateWord(b, placedObj, pu, main.isH, main.wordPositions.positions,
                      [k \in 1 .. Len(main.wordPositions.positions) |->
                          main.wordPositions.positions[k].letter],
                      [k \in 1 .. Len(main.wordPositions.positions) |->
                          <<main.wordPositions.positions[k].r,
                            main.wordPositions.positions[k].c>>])

\* validatePlacement that takes no tile for a misshapen placement
validatePlacement_EmptyIsShape(b, placedObj, pu) ==
    IF Len(keysOf(placedObj)) = 0 THEN failure(ERR_SHAPE, <<>>)
    ELSE validateMain(b, placedObj, pu, chooseMain(b, placedObj))

validatePlacement(b, placedObj, pu) ==
    IF Len(keysOf(placedObj)) = 0 THEN failure(ERR_EMPTY, <<>>)
    ELSE validateMain(b, placedObj, pu, chooseMain(b, placedObj))

\* ---------------------------------------------------------------- engine calls

\* bounds of the inputs
MaxPlaced == 2
Reach == 2

CAT == <<"C","A","T">>
TAT == <<"T","A","T">>

\* boards buildConnectedBoard produces: the seed CAT, and the seed with one more word
BoardCat == placeWordBoard(EmptyBoard, CAT, 7, 6, TRUE)
BoardCatCat == placeWordBoard(BoardCat, CAT, 7, 6, FALSE)
BoardCatTat == placeWordBoard(BoardCat, TAT, 5, 8, FALSE)
\* the seed CAT, CAT down from its C, CAT down to its T, TAT across that word's A
BoardFour ==
    placeWordBoard(placeWordBoard(BoardCatCat, CAT, 5, 8, FALSE), TAT, 6, 7, TRUE)

filledCells(b) == {p \in Idx \X Idx : b[p[1]][p[2]] # NULL}

\* the (board, rack) pairs the engine is called with
EngineInputs ==
    { <<EmptyBoard, <<"A","T">>>>,
      <<BoardCat, <<"T","A">>>>,
      <<BoardCat, <<"T","A","I","L","S">>>>,
      <<BoardCat, <<"A","T","T","A","I","L","S">>>>,
      <<BoardCatCat, <<"T","A">>>>,
      <<BoardCatTat, <<"A","T","T">>>>,
      <<BoardFour, <<"T","C">>>> }

\* squares marked premium-consumed besides the filled cells
ExtraUsed == { {}, {<<8,12>>, <<6,6>>} }

\* the empty cells near the tiles (near the centre on an empty board)
Window(b) ==
    LET near == IF filledCells(b) = {} THEN {<<7, 7>>} ELSE filledCells(b)
    IN  {p \in Idx \X Idx :
            /\ b[p[1]][p[2]] = NULL
            /\ \E q \in near :
                  /\ p[1] - q[1] \in (0 - Reach) .. Reach
                  /\ p[2] - q[2] \in (0 - Reach) .. Reach}

\* sets of at most MaxPlaced cells of the window in one row or one column, and
\* pairs of diagonal neighbours
CellSets(b) ==
    LET W == Window(b)
        line(i, isRow) == {p \in W : (IF isRow THEN p[1] ELSE p[2]) = i}
        inLine == UNION {{S \in SUBSET line(i, isRow) :
                            Cardinality(S) >= 1 /\ Cardinality(S) <= MaxPlaced} :
                         <<i, isRow>> \in Idx \X BOOLEAN}
        diag == {{p, <<p[1] + 1, p[2] + 1>>} : p \in {q \in W : <<q[1] + 1, q[2] + 1>> \in W}}
    IN  inLine \cup diag

\* the orders in which the keys of S can have been inserted
KeyOrders(S) ==
    {o \in [1 .. Cardinality(S) -> S] : \A i, j \in 1 .. Cardinality(S) : o[i] = o[j] => i = j}

\* the placed-tiles objects: on each cell of a cell set a letter of the rack (doPlace
\* puts scenario.rack[rackIdx] on an empty cell and does not count the tiles
\* already placed), the cells in any order of insertion
Placements(b, rk) ==
    UNION {{[i \in 1 .. Cardinality(S) |-> <<o[i], l[o[i]]>>] :
              o \in KeyOrders(S), l \in [S -> Range(rk)]} :
           S \in CellSets(b)}

\* the placed-tiles object of a play: its cells that are empty on the board, in the
\* order of the play's positions
RECURSIVE newCellsFrom(_, _, _)
newCellsFrom(b, play, k) ==
    IF k > Len(play.positions) THEN <<>>
    ELSE IF b[play.positions[k][1]][play.positions[k][2]] = NULL
    THEN <<<<play.positions[k], At(play.word, k - 1)>>>> \o newCellsFrom(b, play, k + 1)
    ELSE newCellsFrom(b, play, k + 1)

newCells(b, play) == newCellsFrom(b, play, 1)

NoPlay == [word |-> <<>>, row |-> 0, col |-> 0, horizontal |-> FALSE, score |-> 0,
           positions |-> <<>>]
NoResult == failure(NULL, <<>>)
NoPlaced == <<>>
NoMain == [error |-> NULL, isH |-> NULL,
           wordPositions |-> [isNull |-> TRUE, positions |-> <<>>]]

EngineInit ==
    /\ WORD_SET \in {Lexicon, {}}
    /\ bpc = "done"
    /\ \E in \in EngineInputs, extra \in ExtraUsed :
          /\ eboard = in[1]
          /\ rack = in[2]
          /\ eused = filledCells(in[1]) \cup extra
    /\ board = eboard
    /\ premiumsUsed = filledCells(eboard)
    /\ attempts = 0
    /\ tileCountSeen = 0
    /\ epc = "init"
    /\ plays = <<>>
    /\ placed = NoPlaced
    /\ vplay = NoPlay
    /\ vmain = NoMain
    /\ vres = NoResult
    /\ sarg = NoPlay
    /\ sres = 0
    /\ dplay = NoPlay
    /\ dres = 0
    /\ AppOff

\* findAllValidPlays(board, rack, premiumsUsed)
Enumerate ==
    /\ epc = "init"
    /\ plays' = findAllValidPlays(eboard, rack, eused)
    /\ epc' = "enumerated"
    /\ UNCHANGED <<WORD_SET, eboard, eused, rack, placed, vplay, vmain, vres, sarg, sres>>
    /\ UNCHANGED <<dplay, dres>>
    /\ UNCHANGED bvars
    /\ UNCHANGED avars

\* validatePlacement(board, placed, premiumsUsed): for tiles of the rack on empty
\* cells, for no tile at all, or for the new cells of a play that findAllValidPlays
\* returned
Validate ==
    /\ epc = "enumerated"
    /\ \/ /\ placed' \in Placements(eboard, rack) \cup {NoPlaced}
          /\ vplay' = NoPlay
          /\ epc' = "validated"
       \/ \E k \in 1 .. Len(plays) :
             /\ vplay' = plays[k]
             /\ placed' = newCells(eboard, plays[k])
             /\ epc' = "roundtrip"
    /\ vmain' = IF Len(placed') = 0 THEN NoMain ELSE chooseMain(eboard, placed')
    /\ vres' = validatePlacement(eboard, placed', eused)
    /\ UNCHANGED <<WORD_SET, eboard, eused, rack, plays, sarg, sres>>
    /\ UNCHANGED <<dplay, dres>>
    /\ UNCHANGED bvars
    /\ UNCHANGED avars

\* scorePlay(word, positions, board, premiumsUsed, isHorizontal) called directly, for
\* a word laid from a cell of the window or a tile, over matching letters
Score ==
    /\ epc = "enumerated"
    /\ \E word \in WORD_SET, start \in Window(eboard) \cup filledCells(eboard),
          isH \in BOOLEAN :
          LET positions == wordPositions(word, start[1], start[2], isH)
          IN  /\ \A k \in 1 .. Len(word) :
                    /\ positions[k][1] < 15 /\ positions[k][2] < 15
                    /\ eboard[positions[k][1]][positions[k][2]] \in {NULL, word[k]}
              /\ sarg' = [word |-> word, row |-> start[1], col |-> start[2],
                          horizontal |-> isH, score |-> 0, positions |-> positions]
              /\ sres' = scorePlay(word, positions, eboard, eused, isH)
    /\ epc' = "scored"
    /\ UNCHANGED <<WORD_SET, eboard, eused, rack, plays, placed, vplay, vmain, vres>>
    /\ UNCHANGED <<dplay, dres>>
    /\ UNCHANGED bvars
    /\ UNCHANGED avars

\* defenseScore(play, board) for a play that findAllValidPlays returned
Defense ==
    /\ epc = "enumerated"
    /\ \E k \in 1 .. Len(plays) :
          /\ dplay' = plays[k]
          /\ dres' = defenseScoreX2(plays[k], eboard)
    /\ epc' = "defended"
    /\ UNCHANGED <<WORD_SET, eboard, eused, rack, plays, placed, vplay, vmain, vres>>
    /\ UNCHANGED <<sarg, sres>>
    /\ UNCHANGED bvars
    /\ UNCHANGED avars

Init == EngineInit
Next == Enumerate \/ Validate \/ Score \/ Defense
Spec == Init /\ [][Next]_vars

\* ---------------------------------------------------------------- ScenarioGenerator

BUILD_ATTEMPTS == 20
MIN_PLAYS == 4

RACK_SIZE == 7
COMMON_PERCENT == 75

commonLetters == <<"A","E","I","O","U","N","R","S","T","L","C","D","G","H","M">>
rareLetters == <<"P","B","F","Y","W","V","K","J","X","Q","Z">>

\* Math.random() returns u / RandomGrain for some u of 0 .. RandomGrain - 1
RandomGrain == 10000

\* letters[Math.floor(Math.random() * letters.length)], for the random number v
pickLetter(letters, v) == letters[((v * Len(letters)) \div RandomGrain) + 1]

\* one iteration of the rack loop, for the random numbers u and v:
\* Math.random() < 0.75 ? a common letter : a rare letter
drawLetter(u, v) ==
    IF u * 100 < COMMON_PERCENT * RandomGrain
    THEN pickLetter(commonLetters, v)
    ELSE pickLetter(rareLetters, v)

\* the rack pushed by the loop for the random numbers draws[i] = <<u, v>>
rackOf(draws) == [i \in 1 .. RACK_SIZE |-> drawLetter(draws[i][1], draws[i][2])]

\* number of random-number sequences tried for the rack
MaxRacks == 1

\* random numbers for the letters used below
DrawA == <<7499, 0>>
DrawT == <<0, 5999>>
DrawI == <<0, 1500>>
DrawL == <<0, 6300>>
DrawS == <<0, 4700>>
DrawZ == <<7501, 9999>>

\* the random-number sequences tried, in order: they give the racks TAILSZZ,
\* ATTAILS, ZZZZZZZ (no play) and AAAAAAA
RackDraws ==
    << <<DrawT, DrawA, DrawI, DrawL, DrawS, DrawZ, DrawZ>>,
       <<DrawA, DrawT, DrawT, DrawA, DrawI, DrawL, DrawS>>,
       <<DrawZ, DrawZ, DrawZ, DrawZ, DrawZ, DrawZ, DrawZ>>,
       <<DrawA, DrawA, DrawA, DrawA, DrawA, DrawA, DrawA>> >>

\* the racks of the first MaxRacks sequences
Racks == {rackOf(RackDraws[i]) : i \in 1 .. Min(MaxRacks, Len(RackDraws))}

\* number of committed growth iterations followed when generateScenario calls
\* buildConnectedBoard
MaxGrown == 0

\* buildConnectedBoard after the first word: the board, premiumsUsed, the last
\* tileCount (0 before any growth) and whether an iteration could pass so far
\* without changing anything
seeded ==
    {[board |-> placeWordBoard(EmptyBoard, w, 7, seedCol(w), TRUE),
      premiumsUsed |-> placeWordUsed({}, w, 7, seedCol(w), TRUE),
      tileCount |-> 0,
      canIdle |-> growCanIdle(placeWordBoard(EmptyBoard, w, 7, seedCol(w), TRUE),
                              placeWordUsed({}, w, 7, seedCol(w), TRUE))] :
        w \in {v \in firstWords :
                  seedCol(v) >= 0 /\ seedCol(v) + Len(v) <= 15 /\ placeWordOk(v)}}

\* the same after one more committed iteration of the growth loop
grownOnce(st) ==
    {[board |-> placeWordBoard(st.board, ch[1], growRow(ch[2], ch[3], ch[4]),
                               growCol(ch[2], ch[3], ch[4]), ch[4]),
      premiumsUsed |-> placeWordUsed(st.premiumsUsed, ch[1], growRow(ch[2], ch[3], ch[4]),
                                     growCol(ch[2], ch[3], ch[4]), ch[4]),
      tileCount |-> tileCount(placeWordBoard(st.board, ch[1], growRow(ch[2], ch[3], ch[4]),
                                             growCol(ch[2], ch[3], ch[4]), ch[4]),
                              Cardinality(tiles(st.board)), ch[1],
                              growRow(ch[2], ch[3], ch[4]), growCol(ch[2], ch[3], ch[4]),
                              ch[4], matchPositionsOf(ch[1], ch[2])),
      canIdle |-> \/ st.canIdle
                  \/ growCanIdle(placeWordBoard(st.board, ch[1],
                                                growRow(ch[2], ch[3], ch[4]),
                                                growCol(ch[2], ch[3], ch[4]), ch[4]),
                                 placeWordUsed(st.premiumsUsed, ch[1],
                                               growRow(ch[2], ch[3], ch[4]),
                                               growCol(ch[2], ch[3], ch[4]), ch[4]))] :
        ch \in {x \in UNION {{<<word, anchor, matchIdx, horizontal>> :
                                  matchIdx \in matchPositionsOf(word, anchor),
                                  horizontal \in BOOLEAN} :
                              word \in Range(pool), anchor \in tiles(st.board)} :
                  growCommits(st.board, x[1], x[2], x[3], x[4])}}

\* what the growth loop can hold after at most k committed iterations
RECURSIVE grownWithin(_)
grownWithin(k) ==
    IF k = 0 THEN seeded
    ELSE LET prev == grownWithin(k - 1)
         IN  prev \cup UNION {grownOnce(st) : st \in {x \in prev : x.tileCount < CEIL_TILES}}

\* what a call of buildConnectedBoard can return: null when no first word can be
\* placed, else { board, premiumsUsed } of a state in which the loop can end: by
\* the break at 18 tiles, or when attempts reaches 200, the iterations that are
\* left over having passed, before or after the last change, without changing
\* anything (no word committed, or a word committed onto itself)
buildConnectedBoardResults ==
    IF seeded = {} THEN {NoBoardData}
    ELSE {[isNull |-> FALSE, board |-> st.board, premiumsUsed |-> st.premiumsUsed] :
            st \in {x \in grownWithin(MaxGrown) :
                      x.tileCount >= STOP_TILES \/ x.canIdle}}

\* validPlays left as findAllValidPlays returned it
sortByScore_Unsorted(ps) == ps

\* validPlays.sort((a, b) => b.score - a.score): a stable sort, highest score first
sortByScore(ps) ==
    LET before(j, k) == ps[j].score > ps[k].score \/ (ps[j].score = ps[k].score /\ j < k)
    IN  [i \in 1 .. Len(ps) |->
            ps[CHOOSE k \in 1 .. Len(ps) :
                  Cardinality({j \in 1 .. Len(ps) : before(j, k)}) = i - 1]]

\* validPlays.map(p => ({ ...p, defScore: defenseScore(p, board) })), defScore doubled
withDef(ps, b) ==
    [k \in 1 .. Len(ps) |->
        [word |-> ps[k].word, row |-> ps[k].row, col |-> ps[k].col,
         horizontal |-> ps[k].horizontal, score |-> ps[k].score,
         positions |-> ps[k].positions, defScoreX2 |-> defenseScoreX2(ps[k], b)]]

\* withDef.sort((a, b) => b.defScore - a.defScore)
sortByDefScore(ps) ==
    LET before(j, k) == \/ ps[j].defScoreX2 > ps[k].defScoreX2
                        \/ (ps[j].defScoreX2 = ps[k].defScoreX2 /\ j < k)
    IN  [i \in 1 .. Len(ps) |->
            ps[CHOOSE k \in 1 .. Len(ps) :
                  Cardinality({j \in 1 .. Len(ps) : before(j, k)}) = i - 1]]

\* generateScenario from the valid plays on: null, or the scenario
scenarioOf(bd, rk, validPlays) ==
    IF Len(validPlays) < MIN_PLAYS THEN NoScenario
    ELSE LET sorted == sortByScore(validPlays)
         IN  [isNull |-> FALSE, board |-> bd.board, rack |-> rk,
              premiumsUsed |-> bd.premiumsUsed,
              bestOffensive |-> sorted[1],
              bestDefensive |-> sortByDefScore(withDef(sorted, bd.board))[1]]

\* ---------------------------------------------------------------- the app

GEN_ATTEMPTS == 40

\* for (let attempt = 0; attempt < 20; attempt++)
buildLoopContinues(attempt) == attempt < BUILD_ATTEMPTS

\* for (let i = 0; i < 40; i++) { s = generateScenario(); if (s) break; }
loadLoopContinues(i, s) == i < GEN_ATTEMPTS /\ s.isNull

\* the engine variables the app leaves alone
erest == <<epc, eboard, eused, rack, vplay, vmain, sarg, sres, dplay, dres>>

\* stats that counts the scenario twice
statsAfter_Twice(st, off, match) ==
    [played |-> st.played + 2,
     offOk |-> st.offOk + (IF ~off.isNull /\ off.match THEN 1 ELSE 0),
     defOk |-> st.defOk + (IF match THEN 1 ELSE 0)]

\* setStats(prev => ...)
statsAfter(st, off, match) ==
    [played |-> st.played + 1,
     offOk |-> st.offOk + (IF ~off.isNull /\ off.match THEN 1 ELSE 0),
     defOk |-> st.defOk + (IF match THEN 1 ELSE 0)]

\* the pointer and statistics state
urest == <<selRack, drag, stats>>

\* the render guard lets the trainer through
rendered == ~(loading \/ scenario.isNull \/ isLoadingDict)

\* scenarios played in a run
MaxScenarios == 2

\* the NEXT SCENARIO button is on the screen
canClickLoad ==
    rendered /\ round = "done" /\ ~offResult.isNull /\ ~defResult.isNull

\* load, up to setTimeout
loadStarts ==
    /\ loading' = TRUE
    /\ placed' = NoPlaced
    /\ round' = "offense"
    /\ offResult' = NoOutcome
    /\ defResult' = NoOutcome
    /\ errorMsg' = NULL
    /\ selRack' = 0
    /\ drag' = 0
    /\ apc' = "timer"
    /\ UNCHANGED <<WORD_SET, dpc, isLoadingDict, scenario, genCalls, loadS, buildCalls,
                   boardData, plays, vres, stats>>
    /\ UNCHANGED erest
    /\ UNCHANGED dcells
    /\ UNCHANGED bvars

\* useEffect(() => { load(); }, [load])
Mount ==
    /\ apc = "mount"
    /\ loadStarts

\* the NEXT SCENARIO button
LoadClick ==
    /\ apc = "idle"
    /\ canClickLoad
    /\ stats.played < MaxScenarios
    /\ loadStarts

\* WORD_SET and isLoadingDict are declared twice in the source. At module level
\* (lines 26-27) useState is called outside any component: WORD_SET is bound once,
\* to the empty Set, and that binding is what the engine reads; setWordSet and
\* setIsLoadingDict, which the load effect of lines 29-49 calls, write the state
\* cells of those two calls and never the bindings. The component declares its
\* own WORD_SET and isLoadingDict (lines 685-686), which the render reads and
\* nothing sets.

\* the WORD_SET of the component: useState(new Set()), its setter is never called
trainerWORD_SET == {}

\* The module is evaluated (lines 26-51): either the call of line 26 throws and
\* nothing of the module runs, or the calls return state cells of their own, the
\* fetch of the dictionary is started and WORD_LIST is made of WORD_SET (line 51)
ModuleEval ==
    /\ apc = "module"
    /\ \/ apc' = "crashed" /\ dpc' = dpc
       \/ apc' = "mount" /\ dpc' = "fetching"
    /\ UNCHANGED <<WORD_SET, isLoadingDict, loading, scenario, round, offResult,
                   defResult, errorMsg,
                   genCalls, loadS, buildCalls, boardData, plays, placed, vres>>
    /\ UNCHANGED dcells
    /\ UNCHANGED erest
    /\ UNCHANGED urest
    /\ UNCHANGED bvars

\* the dictionary fetch resolves: setWordSet(new Set(words)), setIsLoadingDict(false)
DictLoaded ==
    /\ dpc = "fetching"
    /\ apc \in {"mount", "timer", "idle"}
    /\ wordSetCell' = wordsOf(DictLines)
    /\ isLoadingDictCell' = FALSE
    /\ dpc' = "settled"
    /\ UNCHANGED <<WORD_SET, isLoadingDict, apc, loading, scenario, round, offResult,
                   defResult, errorMsg,
                   genCalls, loadS, buildCalls, boardData, plays, placed, vres>>
    /\ UNCHANGED erest
    /\ UNCHANGED urest
    /\ UNCHANGED bvars

\* the dictionary fetch fails: setIsLoadingDict(false)
DictFailed ==
    /\ dpc = "fetching"
    /\ apc \in {"mount", "timer", "idle"}
    /\ isLoadingDictCell' = FALSE
    /\ dpc' = "settled"
    /\ UNCHANGED <<WORD_SET, wordSetCell, isLoadingDict, apc, loading, scenario, round,
                   offResult, defResult, errorMsg,
                   genCalls, loadS, buildCalls, boardData, plays, placed, vres>>
    /\ UNCHANGED erest
    /\ UNCHANGED urest
    /\ UNCHANGED bvars

\* the timer callback starts: let s = null; i = 0
TimerFire ==
    /\ apc = "timer"
    /\ apc' = "loop"
    /\ genCalls' = 0
    /\ loadS' = NoScenario
    /\ UNCHANGED <<WORD_SET, dpc, isLoadingDict, loading, scenario, round, offResult,
                   defResult, errorMsg, buildCalls, boardData, plays, placed, vres>>
    /\ UNCHANGED erest
    /\ UNCHANGED dcells
    /\ UNCHANGED urest
    /\ UNCHANGED bvars

\* one more iteration of the callback's loop: generateScenario is called
GenCall ==
    /\ apc = "loop"
    /\ loadLoopContinues(genCalls, loadS)
    /\ genCalls' = genCalls + 1
    /\ buildCalls' = 0
    /\ boardData' = NoBoardData
    /\ apc' = "build"
    /\ UNCHANGED <<WORD_SET, dpc, isLoadingDict, loading, scenario, round, offResult,
                   defResult, errorMsg, loadS, plays, placed, vres>>
    /\ UNCHANGED erest
    /\ UNCHANGED dcells
    /\ UNCHANGED urest
    /\ UNCHANGED bvars

\* one iteration of generateScenario's loop: boardData = buildConnectedBoard()
GenBuild ==
    /\ apc = "build"
    /\ buildLoopContinues(buildCalls)
    /\ buildCalls' = buildCalls + 1
    /\ \E bd \in buildConnectedBoardResults :
          /\ boardData' = bd
          /\ apc' = IF bd.isNull THEN "build" ELSE "rack"
    /\ UNCHANGED <<WORD_SET, dpc, isLoadingDict, loading, scenario, round, offResult,
                   defResult, errorMsg, genCalls, loadS, plays, placed, vres>>
    /\ UNCHANGED erest
    /\ UNCHANGED dcells
    /\ UNCHANGED urest
    /\ UNCHANGED bvars

\* the loop ends without a board: if (!boardData) return null
GenNoBoard ==
    /\ apc = "build"
    /\ ~buildLoopContinues(buildCalls)
    /\ loadS' = NoScenario
    /\ apc' = "loop"
    /\ UNCHANGED <<WORD_SET, dpc, isLoadingDict, loading, scenario, round, offResult,
                   defResult, errorMsg, genCalls, buildCalls, boardData, plays, placed,
                   vres>>
    /\ UNCHANGED erest
    /\ UNCHANGED dcells
    /\ UNCHANGED urest
    /\ UNCHANGED bvars

\* the rest of generateScenario: the rack, the valid plays, the best plays; plays
\* is validPlays as the call leaves it when it returns a scenario, sorted in place
\* by score (line 527)
GenRack ==
    /\ apc = "rack"
    /\ \E rk \in Racks :
          LET validPlays == findAllValidPlays(boardData.board, rk, boardData.premiumsUsed)
          IN  /\ loadS' = scenarioOf(boardData, rk, validPlays)
              /\ plays' = IF Len(validPlays) < MIN_PLAYS THEN <<>>
                           ELSE sortByScore(validPlays)
    /\ apc' = "loop"
    /\ UNCHANGED <<WORD_SET, dpc, isLoadingDict, loading, scenario, round, offResult,
                   defResult, errorMsg, genCalls, buildCalls, boardData, placed, vres>>
    /\ UNCHANGED erest
    /\ UNCHANGED dcells
    /\ UNCHANGED urest
    /\ UNCHANGED bvars

\* the callback ends: setScenario(s); setLoading(false); its variables and
\* those of generateScenario are gone
LoadDone ==
    /\ apc = "loop"
    /\ ~loadLoopContinues(genCalls, loadS)
    /\ scenario' = loadS
    /\ loading' = FALSE
    /\ apc' = "idle"
    /\ genCalls' = 0
    /\ loadS' = NoScenario
    /\ buildCalls' = 0
    /\ boardData' = NoBoardData
    /\ plays' = <<>>
    /\ UNCHANGED <<WORD_SET, dpc, isLoadingDict, round, offResult, defResult, errorMsg,
                   placed, vres>>
    /\ UNCHANGED erest
    /\ UNCHANGED dcells
    /\ UNCHANGED urest
    /\ UNCHANGED bvars

\* the board cells the player's events fall on: a cell of the first word, the
\* empty cell above it (a double-letter square) and the empty cell beside that
UICells == {<<6, 6>>, <<7, 6>>, <<6, 7>>}

\* the rack tiles the player's events fall on
UIRackIdx == {1, 2}

\* the trainer is on the screen and the callback of load is not running
Playing == apc = "idle" /\ rendered

\* usedCounts[l]
usedCounts(placedObj, l) == Cardinality({i \in 1 .. Len(placedObj) : placedObj[i][2] = l})

\* rackUsed[idx]: the earliest rack indices of a letter are consumed first
rackUsed(idx) ==
    usedCounts(placed, scenario.rack[idx])
        > Cardinality({i \in 1 .. idx - 1 : scenario.rack[i] = scenario.rack[idx]})

\* doPlace(rackIdx, r, c) places the tile
doPlaceFires(rackIdx, p) ==
    /\ round # "done"
    /\ scenario.board[p[1]][p[2]] = NULL
    /\ p \notin DOMAIN lettersOf(placed)

\* placed after doPlace(rackIdx, r, c): the new key comes after the keys of prev
doPlacePlaced(rackIdx, p) == Append(placed, <<p, scenario.rack[rackIdx]>>)

\* placed after doPickUp(r, c): the key is deleted, the others keep their order
doPickUpPlaced(p) ==
    LET keep(e) == e[1] # p
    IN  SelectSeq(placed, keep)

\* what the pointer and click handlers leave alone
uiFrame ==
    /\ UNCHANGED <<WORD_SET, apc, dpc, isLoadingDict, loading, scenario, round, offResult,
                   defResult, genCalls, loadS, buildCalls, boardData, plays, vres, stats>>
    /\ UNCHANGED erest
    /\ UNCHANGED dcells
    /\ UNCHANGED bvars

\* onRackClick(idx)
RackClick ==
    /\ Playing
    /\ \E idx \in UIRackIdx :
          /\ ~(rackUsed(idx) \/ round = "done")
          /\ selRack' = IF selRack = idx THEN 0 ELSE idx
    /\ UNCHANGED <<placed, drag, errorMsg>>
    /\ uiFrame

\* onRackPointerDown(e, idx)
RackPointerDown ==
    /\ Playing
    /\ \E idx \in UIRackIdx :
          /\ ~(rackUsed(idx) \/ round = "done")
          /\ drag' = idx
          /\ selRack' = idx
    /\ UNCHANGED <<placed, errorMsg>>
    /\ uiFrame

\* onPointerUp(e), over a cell of the board
PointerUpOnCell ==
    /\ Playing
    /\ drag # 0
    /\ \E p \in UICells :
          IF doPlaceFires(drag, p)
          THEN /\ placed' = doPlacePlaced(drag, p)
               /\ selRack' = 0
               /\ errorMsg' = NULL
          ELSE UNCHANGED <<placed, selRack, errorMsg>>
    /\ drag' = 0
    /\ uiFrame

\* onPointerUp(e), off the board
PointerUpOff ==
    /\ Playing
    /\ drag # 0
    /\ drag' = 0
    /\ UNCHANGED <<placed, selRack, errorMsg>>
    /\ uiFrame

\* onCellClick(r, c) on one of the player's tiles: doPickUp
CellClickPickUp ==
    /\ Playing
    /\ round # "done"
    /\ \E p \in UICells :
          /\ p \in DOMAIN lettersOf(placed)
          /\ placed' = doPickUpPlaced(p)
    /\ errorMsg' = NULL
    /\ UNCHANGED <<selRack, drag>>
    /\ uiFrame

\* onCellClick(r, c) on an empty cell while a rack tile is selected: doPlace
CellClickPlace ==
    /\ Playing
    /\ round # "done"
    /\ \E p \in UICells :
          /\ p \notin DOMAIN lettersOf(placed)
          /\ selRack # 0
          /\ scenario.board[p[1]][p[2]] = NULL
          /\ doPlaceFires(selRack, p)
          /\ placed' = doPlacePlaced(selRack, p)
    /\ selRack' = 0
    /\ errorMsg' = NULL
    /\ UNCHANGED drag
    /\ uiFrame

\* the CLEAR button
Clear ==
    /\ Playing
    /\ round # "done"
    /\ placed' = NoPlaced
    /\ selRack' = 0
    /\ errorMsg' = NULL
    /\ UNCHANGED drag
    /\ uiFrame

\* onSubmit
Submit ==
    /\ Playing
    /\ round # "done"
    /\ DOMAIN lettersOf(placed) # {}
    /\ LET v == validatePlacement(scenario.board, placed, scenario.premiumsUsed)
       IN  IF ~v.valid
           THEN /\ errorMsg' = v.error
                /\ UNCHANGED <<round, offResult, defResult, placed, selRack, stats>>
           ELSE /\ errorMsg' = NULL
                /\ IF round = "offense"
                   THEN /\ offResult' = [isNull |-> FALSE, word |-> v.word,
                                         score |-> v.score,
                                         match |-> v.score >= scenario.bestOffensive.score]
                        /\ round' = "defense"
                        /\ placed' = NoPlaced
                        /\ selRack' = 0
                        /\ UNCHANGED <<defResult, stats>>
                   ELSE LET match == defenseScoreX2([positions |-> v.positions,
                                                     word |-> v.word], scenario.board)
                                        >= scenario.bestDefensive.defScoreX2
                        IN  /\ defResult' = [isNull |-> FALSE, word |-> v.word,
                                             score |-> v.score, match |-> match]
                            /\ round' = "done"
                            /\ stats' = statsAfter(stats, offResult, match)
                            /\ UNCHANGED <<offResult, placed, selRack>>
    /\ UNCHANGED <<WORD_SET, apc, dpc, isLoadingDict, loading, scenario, genCalls, loadS,
                   buildCalls, boardData, plays, vres, drag>>
    /\ UNCHANGED erest
    /\ UNCHANGED dcells
    /\ UNCHANGED bvars

\* the component's useState initial values (lines 687-696), with no engine call
\* made
AppStart ==
    /\ bpc = "done"
    /\ board = EmptyBoard
    /\ premiumsUsed = {}
    /\ attempts = 0
    /\ tileCountSeen = 0
    /\ epc = "idle"
    /\ eboard = EmptyBoard
    /\ eused = {}
    /\ rack = <<>>
    /\ plays = <<>>
    /\ placed = NoPlaced
    /\ vplay = NoPlay
    /\ vmain = NoMain
    /\ vres = NoResult
    /\ sarg = NoPlay
    /\ sres = 0
    /\ dplay = NoPlay
    /\ dres = 0
    /\ loading = TRUE
    /\ scenario = NoScenario
    /\ round = "offense"
    /\ offResult = NoOutcome
    /\ defResult = NoOutcome
    /\ errorMsg = NULL
    /\ genCalls = 0
    /\ loadS = NoScenario
    /\ buildCalls = 0
    /\ boardData = NoBoardData
    /\ selRack = 0
    /\ drag = 0
    /\ stats = NoStats

\* The state in which the source as it is written starts: the module is about to
\* be evaluated, WORD_SET is the empty Set of line 26 and stays so, the state
\* cells hold their initial values and the component's isLoadingDict is true
\* (line 686).
AppInit ==
    /\ WORD_SET = {}
    /\ wordSetCell = {}
    /\ isLoadingDictCell = TRUE
    /\ isLoadingDict = TRUE
    /\ apc = "module"
    /\ dpc = "none"
    /\ AppStart

\* the steps of the source as written: with WORD_SET empty no board is built, so
\* that the rack is never drawn and the trainer never comes on the screen
AppNext ==
    \/ ModuleEval \/ Mount \/ DictLoaded \/ DictFailed
    \/ TimerFire \/ GenCall \/ GenBuild \/ GenNoBoard \/ LoadDone

SpecApp == AppInit /\ [][AppNext]_vars

\* The inputs of the trainer. The source as written never brings the component
\* past its render guard (SpecApp: WORD_SET stays empty and isLoadingDict stays
\* true), so that the handlers of the component are checked as the functions of
\* the engine are: on inputs that are given. Given are the two values the load of
\* the dictionary is written to produce and does not: the word set of the file in
\* the WORD_SET the engine reads, and false in the isLoadingDict the render guard
\* reads.
DictionaryGiven ==
    /\ WORD_SET = Lexicon
    /\ wordSetCell = Lexicon
    /\ isLoadingDictCell = FALSE
    /\ isLoadingDict = FALSE
    /\ dpc = "settled"

\* the component about to be mounted, the dictionary given
TrainerInit ==
    /\ DictionaryGiven
    /\ apc = "mount"
    /\ AppStart

\* the steps of the trainer: generation and the player's events
TrainerNext ==
    \/ Mount \/ LoadClick
    \/ TimerFire \/ GenCall \/ GenBuild \/ GenRack \/ LoadDone
    \/ RackClick \/ RackPointerDown \/ PointerUpOnCell \/ PointerUpOff
    \/ CellClickPickUp \/ CellClickPlace \/ Clear \/ Submit

SpecTrainer == TrainerInit /\ [][TrainerNext]_vars

\* the three nested retry loops: load with its calls of generateScenario and
\* buildConnectedBoard, with and without a dictionary, and buildConnectedBoard's
\* growth loop run on its own
GenerationNext ==
    \/ ModuleEval \/ Mount \/ DictLoaded \/ DictFailed
    \/ TimerFire \/ GenCall \/ GenBuild \/ GenNoBoard \/ GenRack \/ LoadDone
    \/ BuildNext

\* Weak fairness of the steps of generation, each with its ENABLED written out.

\* ENABLED <<GenCall \/ GenBuild \/ GenNoBoard \/ LoadDone>>_vars: the loop of the
\* callback either goes on or ends, and so does the loop of generateScenario
GenStepEnabled == apc \in {"loop", "build"}
GenStepFair ==
    []<>(~GenStepEnabled) \/ []<><<GenCall \/ GenBuild \/ GenNoBoard \/ LoadDone>>_vars

\* ENABLED <<GenRack>>_vars: Racks is not empty and GenRack changes apc
GenRackEnabled == apc = "rack"
GenRackFair == []<>(~GenRackEnabled) \/ []<><<GenRack>>_vars

\* ENABLED <<BuildNext>>_vars: the first word, the return, one more iteration
\* explored, or the remaining iterations that commit nothing
BuildEnabled ==
    \/ bpc = "seed"
    \/ /\ bpc = "grow"
       /\ \/ ~growLoopContinues(attempts)
          \/ attempts < MaxIter
          \/ growCanFail(board)
BuildFair == []<>(~BuildEnabled) \/ []<><<BuildNext>>_vars

\* the timer callback and buildConnectedBoard run to completion once started
SpecGeneration ==
    /\ (AppInit \/ TrainerInit \/ BuildInit)
    /\ [][GenerationNext]_vars
    /\ GenStepFair
    /\ GenRackFair
    /\ BuildFair

\* ---------------------------------------------------------------- claims: BoardBuilder

\* C1: after the seed placement and after any sequence of committed growth
\* placements, and so in every board that buildConnectedBoard returns, every maximal
\* horizontal or vertical run of two or more filled cells spells a Lexicon word.
C1_RunsAreWords ==
    bpc \in {"grow", "done"} => AllRunsValid(board)

\* a returned board on which three growth placements added tiles to the seed, so
\* that words cross and new tiles have perpendicular neighbours
C1_Witness ==
    /\ bpc = "done"
    /\ FilledCount(board) >= 9
    /\ \E w \in Runs(board) : Len(w) = 2

\* ---------------------------------------------------------------- claims: engine

\* ---- the builder's stop count, connectivity and letters

Cells == Idx \X Idx
Filled(b) == {p \in Cells : b[p[1]][p[2]] # NULL}
Adjacent(p, q) ==
    \/ p[1] = q[1] /\ (p[2] = q[2] + 1 \/ q[2] = p[2] + 1)
    \/ p[2] = q[2] /\ (p[1] = q[1] + 1 \/ q[1] = p[1] + 1)

\* the filled cells joined to the cells of S by orthogonal steps over filled cells
RECURSIVE Group(_, _)
Group(b, S) ==
    LET T == S \cup {q \in Filled(b) : \E p \in S : Adjacent(p, q)}
    IN  IF T = S THEN S ELSE Group(b, T)

\* C18: the count used by the stop checks after a committed placement is the number
\* of filled cells of the board, and the growth loop goes on only while the board
\* holds fewer than 40 filled cells.
C18_StopCountIsFilledCount ==
    /\ (bpc \in {"grow", "done"} /\ tileCountSeen # 0)
          => tileCountSeen = FilledCount(board)
    /\ bpc = "grow" => FilledCount(board) < CEIL_TILES

\* C19: after the seed placement and after every committed growth placement the
\* filled cells are one orthogonally connected group that lies through row 7 and
\* contains the centre square (7,7); a step that fills cells fills a cell next to
\* an already filled one, unless the board was empty.
C19_Connected ==
    /\ [](bpc \in {"grow", "done"} =>
            /\ board[7][7] # NULL
            /\ board[7][6] # NULL
            /\ board[7][8] # NULL
            /\ Group(board, {<<7, 7>>}) = Filled(board))
    /\ [][(Filled(board) # {} /\ Filled(board') # Filled(board)) =>
            \E q \in Filled(board') \ Filled(board) :
                \E p \in Filled(board) : Adjacent(p, q)]_vars

\* the builder returned a board of three or more words with tiles off row 7 on
\* both sides of it
C19_Witness ==
    /\ bpc = "done"
    /\ FilledCount(board) >= 9
    /\ \E p \in Filled(board) : p[1] < 6
    /\ \E p \in Filled(board) : p[1] > 8

\* C20: board letters are never overwritten during building: a step leaves the
\* letter of every filled cell as it is.
C20_NeverOverwritten ==
    [][\A p \in Cells :
          board[p[1]][p[2]] # NULL => board'[p[1]][p[2]] = board[p[1]][p[2]]]_vars

\* a board on which a word lies over two letters that were already there: a
\* run of three below row 7 whose two ends hang from filled cells
C20_Witness ==
    /\ bpc \in {"grow", "done"}
    /\ \E r \in 8 .. 14, c \in 0 .. 12 :
          /\ board[r][c] # NULL /\ board[r][c + 1] # NULL /\ board[r][c + 2] # NULL
          /\ board[r - 1][c] # NULL /\ board[r - 1][c + 2] # NULL
          /\ board[r - 1][c + 1] = NULL

\* the number of tiles of letter l in a rack, and on the new cells of a play
InRack(rk, l) == Cardinality({k \in 1 .. Len(rk) : rk[k] = l})
NewIndices(b, play) ==
    {k \in 1 .. Len(play.positions) :
        b[play.positions[k][1]][play.positions[k][2]] = NULL}
OldIndices(b, play) ==
    {k \in 1 .. Len(play.positions) :
        b[play.positions[k][1]][play.positions[k][2]] # NULL}

\* C2: round trip. For every play returned by findAllValidPlays, validatePlacement
\* given the play's newly placed cells on the same board and premiumsUsed returns
\* valid: true with a score equal to the play's score.
C2_RoundTrip ==
    epc = "roundtrip" => vres.valid /\ vres.score = vplay.score

\* a play that places a single tile, for which the validator picks the other
\* orientation as main word, and a cross word is scored
C2_Witness ==
    /\ epc = "roundtrip"
    /\ Cardinality(DOMAIN lettersOf(placed)) = 1
    /\ vres.valid
    /\ vres.horizontal # vplay.horizontal
    /\ vres.word # <<>>

\* C3: the enumerator returns every legal play. Whenever validatePlacement accepts
\* tiles of the rack placed on empty cells, findAllValidPlays for that board and
\* rack returns a play whose newly placed cells and letters are that placement.
C3_EnumeratorComplete ==
    (epc = "validated" /\ vres.valid
        /\ \A l \in Range(rack) : usedCounts(placed, l) <= InRack(rack, l)) =>
        \E k \in 1 .. Len(plays) : lettersOf(newCells(eboard, plays[k])) = lettersOf(placed)

\* C4: for every play returned by findAllValidPlays, no letter is on more newly
\* placed cells than the rack holds tiles of it.
C4_SubMultiset ==
    epc = "enumerated" =>
        \A k \in 1 .. Len(plays) : \A l \in Letters :
            Cardinality({i \in NewIndices(eboard, plays[k]) : plays[k].word[i] = l})
                <= InRack(rack, l)

\* a returned play that places the same letter twice, from a rack that holds it
\* twice, while a word is in the Lexicon that would need the letter three times
C4_Witness ==
    /\ epc = "enumerated"
    /\ \E k \in 1 .. Len(plays) : \E l \in Letters :
          /\ Cardinality({i \in NewIndices(eboard, plays[k]) : plays[k].word[i] = l}) = 2
          /\ InRack(rack, l) = 2

\* C5: every play returned by findAllValidPlays covers at least one cell that holds
\* the word's letter on the board and at least one empty cell; on an empty board
\* the result is empty.
C5_TouchesAndPlaces ==
    epc = "enumerated" =>
        /\ \A k \in 1 .. Len(plays) :
              /\ \E i \in OldIndices(eboard, plays[k]) :
                    eboard[plays[k].positions[i][1]][plays[k].positions[i][2]]
                        = plays[k].word[i]
              /\ NewIndices(eboard, plays[k]) # {}
        /\ (filledCells(eboard) = {} => plays = <<>>)

\* plays were returned, one covering several board letters and one a single one
C5_Witness ==
    /\ epc = "enumerated"
    /\ \E k \in 1 .. Len(plays) : Cardinality(OldIndices(eboard, plays[k])) >= 3
    /\ \E k \in 1 .. Len(plays) : Cardinality(OldIndices(eboard, plays[k])) = 1

\* ---- the score of a play, stated from the rules

IsNewCell(b, p) == b[p[1]][p[2]] = NULL

\* a square's premium counts for a newly placed cell that is not premium-consumed
Counts(b, pu, p) == IsNewCell(b, p) /\ p \notin pu

LetterFactor(b, pu, p) ==
    IF Counts(b, pu, p) /\ p \in DLS THEN 2
    ELSE IF Counts(b, pu, p) /\ p \in TLS THEN 3 ELSE 1

WordFactor(b, pu, cells) ==
    (2 ^ Cardinality({p \in cells : Counts(b, pu, p) /\ p \in DWS}))
      * (3 ^ Cardinality({p \in cells : Counts(b, pu, p) /\ p \in TWS}))

RECURSIVE SumOf(_)
SumOf(f) ==
    IF DOMAIN f = {} THEN 0
    ELSE LET x == CHOOSE y \in DOMAIN f : TRUE
         IN  f[x] + SumOf([y \in DOMAIN f \ {x} |-> f[y]])

\* the points of one word: lt maps each of its cells to the letter on it
WordPoints(b, pu, lt) ==
    SumOf([p \in DOMAIN lt |-> TV[lt[p]] * LetterFactor(b, pu, p)])
      * WordFactor(b, pu, DOMAIN lt)

\* the letters of the main word, by cell
MainLetters(word, positions) ==
    [p \in Range(positions) |-> word[CHOOSE k \in 1 .. Len(word) : positions[k] = p]]

\* the perpendicular run through the new cell p holding letter l: the filled cells
\* of p's column (row, for a vertical play) joined to p by filled cells
PerpLetters(b, p, l, isH) ==
    LET joined(q) ==
            IF isH
            THEN /\ q[2] = p[2]
                 /\ \A r \in Min(p[1], q[1]) .. Max(p[1], q[1]) : r = p[1] \/ b[r][p[2]] # NULL
            ELSE /\ q[1] = p[1]
                 /\ \A c \in Min(p[2], q[2]) .. Max(p[2], q[2]) : c = p[2] \/ b[p[1]][c] # NULL
    IN  [q \in {q \in Idx \X Idx : joined(q)} |-> IF q = p THEN l ELSE b[q[1]][q[2]]]

RuleScore(word, positions, b, pu, isH) ==
    LET main == MainLetters(word, positions)
        news == {p \in DOMAIN main : IsNewCell(b, p)}
        crossing == {p \in news : Cardinality(DOMAIN PerpLetters(b, p, main[p], isH)) >= 2}
    IN  WordPoints(b, pu, main)
          + SumOf([p \in crossing |-> WordPoints(b, pu, PerpLetters(b, p, main[p], isH))])

NewCount(b, positions) ==
    Cardinality({p \in Range(positions) : IsNewCell(b, p)})

\* C6: scorePlay returns the sum, over the main word and over each perpendicular run
\* of length >= 2 through a newly placed cell, of (sum of letter values, doubled on
\* DoubleLetter, tripled on TripleLetter) times (2 per DoubleWord, 3 per TripleWord),
\* a premium counting only on a newly placed cell that is not premium-consumed
\* (the Bingo bonus of C7 apart). CAT across the centre of an empty board scores 10.
C6_ScoreIsRuleScore ==
    /\ epc = "scored" =>
          /\ sres - (IF NewCount(eboard, sarg.positions) = 7 THEN 50 ELSE 0)
                = RuleScore(sarg.word, sarg.positions, eboard, eused, sarg.horizontal)
          /\ (/\ eboard = EmptyBoard /\ eused = {} /\ sarg.word = CAT
              /\ sarg.row = 7 /\ sarg.col = 6 /\ sarg.horizontal) => sres = 10
    /\ epc = "enumerated" =>
          \A k \in 1 .. Len(plays) :
              plays[k].score - (IF NewCount(eboard, plays[k].positions) = 7 THEN 50 ELSE 0)
                = RuleScore(plays[k].word, plays[k].positions, eboard, eused,
                            plays[k].horizontal)

\* a scored play with a cross word through a new tile on a premium square that
\* counts, and with a tile on a premium square that is already consumed
C6_Witness ==
    /\ epc = "scored"
    /\ \E p \in Range(sarg.positions) :
          /\ Counts(eboard, eused, p)
          /\ p \in DLS \cup DWS
          /\ Cardinality(DOMAIN PerpLetters(eboard, p, MainLetters(sarg.word, sarg.positions)[p],
                                            sarg.horizontal)) >= 2
    /\ \E p \in Range(sarg.positions) :
          IsNewCell(eboard, p) /\ p \in eused /\ p \in DLS \cup DWS
    /\ \E p \in Range(sarg.positions) : ~IsNewCell(eboard, p)

\* C6's example: CAT across the centre of an empty board
C6_WitnessCat ==
    /\ epc = "scored" /\ eboard = EmptyBoard /\ eused = {} /\ sarg.word = CAT
    /\ sarg.row = 7 /\ sarg.col = 6 /\ sarg.horizontal /\ sres = 10

\* C7: Bingo. scorePlay adds exactly 50 to the sum of the word scores when exactly 7
\* cells of the play are empty on the board, and nothing when fewer are.
C7_Bingo ==
    LET words(w, ps, h) == RuleScore(w, ps, eboard, eused, h)
    IN  /\ epc = "scored" =>
              /\ NewCount(eboard, sarg.positions) = 7
                    => sres = words(sarg.word, sarg.positions, sarg.horizontal) + 50
              /\ NewCount(eboard, sarg.positions) < 7
                    => sres = words(sarg.word, sarg.positions, sarg.horizontal)
        /\ epc = "roundtrip" =>
              /\ NewCount(eboard, vplay.positions) = 7
                    => vplay.score = words(vplay.word, vplay.positions, vplay.horizontal) + 50
              /\ NewCount(eboard, vplay.positions) < 7
                    => vplay.score = words(vplay.word, vplay.positions, vplay.horizontal)

\* a play of eight cells that puts seven rack tiles around a board letter was scored
C7_Witness ==
    /\ epc = "scored"
    /\ Len(sarg.positions) = 8
    /\ NewCount(eboard, sarg.positions) = 7
    /\ sres >= 50

\* a play of seven cells, one of them a board letter, was scored without the bonus
C7_WitnessNoBonus ==
    /\ epc = "scored"
    /\ Len(sarg.positions) = 7
    /\ NewCount(eboard, sarg.positions) = 6
    /\ sres < 50

\* ---- the validator's main word and connectivity

\* the letters of a run, by cell, as the word it spells (across or down)
RunSeq(lt, across) ==
    LET coord(p) == IF across THEN p[2] ELSE p[1]
        lo == SetMin({coord(p) : p \in DOMAIN lt})
    IN  [k \in 1 .. Cardinality(DOMAIN lt) |->
            lt[CHOOSE p \in DOMAIN lt : coord(p) = lo + k - 1]]

RunCells(lt, across) ==
    LET coord(p) == IF across THEN p[2] ELSE p[1]
        lo == SetMin({coord(p) : p \in DOMAIN lt})
    IN  [k \in 1 .. Cardinality(DOMAIN lt) |->
            CHOOSE p \in DOMAIN lt : coord(p) = lo + k - 1]

Validated == epc \in {"validated", "roundtrip"} /\ DOMAIN lettersOf(placed) # {}
SingleTile == Validated /\ Cardinality(DOMAIN lettersOf(placed)) = 1
TheTile == CHOOSE p \in DOMAIN lettersOf(placed) : TRUE

\* the runs through the single placed tile: across its row and down its column
AcrossRun == PerpLetters(eboard, TheTile, lettersOf(placed)[TheTile], FALSE)
DownRun == PerpLetters(eboard, TheTile, lettersOf(placed)[TheTile], TRUE)

\* the words and cells of validatePlacement's main word
MainWord == [k \in 1 .. Len(vmain.wordPositions.positions) |->
                vmain.wordPositions.positions[k].letter]
MainCells == [k \in 1 .. Len(vmain.wordPositions.positions) |->
                <<vmain.wordPositions.positions[k].r, vmain.wordPositions.positions[k].c>>]

\* C8: for a single placed tile, the main word is the longer of the runs through the
\* tile across and down, the run across when both have the same length >= 2, and
\* the only run of length >= 2 when one orientation has one; the returned
\* orientation and word are those of the chosen run.
C8_SingleTileMainWord ==
    SingleTile =>
        LET hl == Cardinality(DOMAIN AcrossRun)
            vl == Cardinality(DOMAIN DownRun)
            across == IF hl >= 2 /\ vl >= 2 THEN ~(vl > hl) ELSE hl >= 2
            chosen == IF across THEN AcrossRun ELSE DownRun
        IN  (hl >= 2 \/ vl >= 2) =>
                /\ vmain.error = NULL
                /\ ~vmain.wordPositions.isNull
                /\ vmain.isH = across
                /\ MainWord = RunSeq(chosen, across)
                /\ MainCells = RunCells(chosen, across)
                /\ vres.valid =>
                      /\ vres.horizontal = across
                      /\ vres.word = RunSeq(chosen, across)
                      /\ vres.positions = RunCells(chosen, across)

\* an accepted single tile whose run down is longer than its run across, both words
C8_Witness ==
    /\ SingleTile
    /\ Cardinality(DOMAIN DownRun) > Cardinality(DOMAIN AcrossRun)
    /\ Cardinality(DOMAIN AcrossRun) >= 2
    /\ vres.valid
    /\ ~vres.horizontal

\* an accepted single tile whose two runs have the same length 2
C8_WitnessTie ==
    /\ SingleTile
    /\ Cardinality(DOMAIN DownRun) = 2
    /\ Cardinality(DOMAIN AcrossRun) = 2
    /\ vres.valid
    /\ vres.horizontal

\* C9: a single placed tile with no filled cell directly above, below, left or
\* right of it is refused with the reason "No word formed."
C9_NoWordFormed ==
    (/\ SingleTile
     /\ Cardinality(DOMAIN AcrossRun) = 1
     /\ Cardinality(DOMAIN DownRun) = 1)
        => (~vres.valid /\ vres.error = ERR_NO_WORD)

\* C10: connectivity. validatePlacement returns valid only if the main word
\* contains a board tile or a newly placed cell has a perpendicular run of length
\* >= 2 that is a Lexicon word; a main word in the Lexicon with neither is refused
\* with "must connect to the existing board". So every accepted placement has a new
\* tile next to a board tile, and none is accepted on an empty board.
C10_Connectivity ==
    Validated =>
        LET extracted == /\ vmain.error = NULL
                         /\ ~vmain.wordPositions.isNull
                         /\ Len(MainWord) >= 2
            touches == \E k \in 1 .. Len(MainCells) : ~IsNewCell(eboard, MainCells[k])
            crossRun(k) == PerpLetters(eboard, MainCells[k], MainWord[k], vmain.isH)
            crossConn == \E k \in 1 .. Len(MainCells) :
                            /\ IsNewCell(eboard, MainCells[k])
                            /\ Cardinality(DOMAIN crossRun(k)) >= 2
                            /\ RunSeq(crossRun(k), ~vmain.isH) \in WORD_SET
            adjacent == \E p \in DOMAIN lettersOf(placed) :
                            \E q \in {<<p[1] - 1, p[2]>>, <<p[1] + 1, p[2]>>,
                                      <<p[1], p[2] - 1>>, <<p[1], p[2] + 1>>} :
                                q \in Idx \X Idx /\ ~IsNewCell(eboard, q)
        IN  /\ vres.valid => (extracted /\ (touches \/ crossConn))
            /\ (extracted /\ MainWord \in WORD_SET /\ ~touches /\ ~crossConn)
                  => (~vres.valid /\ vres.error = ERR_CONNECT)
            /\ vres.valid => adjacent
            /\ filledCells(eboard) = {} => ~vres.valid

\* an accepted placement whose main word holds no board tile: it is connected by
\* a cross word only
C10_Witness ==
    /\ Validated
    /\ vres.valid
    /\ \A k \in 1 .. Len(MainCells) : IsNewCell(eboard, MainCells[k])

\* a Lexicon word placed apart from the tiles was refused as not connected
C10_WitnessRefused ==
    /\ Validated
    /\ filledCells(eboard) # {}
    /\ vres.error = ERR_CONNECT

\* ---- the validator's words, the empty placement, the Lexicon, and purity

\* the board with the placed tiles added
Merged(b, pl) ==
    [r \in Idx |-> [c \in Idx |-> IF <<r, c>> \in DOMAIN pl THEN pl[<<r, c>>] ELSE b[r][c]]]

\* C11: whenever validatePlacement returns valid, the returned word has length >= 2
\* and is in the Lexicon, and every perpendicular run of length >= 2 through a
\* newly placed cell is in the Lexicon; so if every run of length >= 2 of the
\* board is a Lexicon word, the same holds for the board with the tiles added.
C11_AcceptedWordsAreWords ==
    (Validated /\ vres.valid) =>
        /\ Len(vres.word) >= 2
        /\ vres.word \in WORD_SET
        /\ \A p \in DOMAIN lettersOf(placed) :
              LET run == PerpLetters(eboard, p, lettersOf(placed)[p], vres.horizontal)
              IN  Cardinality(DOMAIN run) >= 2
                    => RunSeq(run, ~vres.horizontal) \in WORD_SET
        /\ AllRunsValid(eboard) => AllRunsValid(Merged(eboard, lettersOf(placed)))

\* an accepted placement of two tiles, one of them forming a cross word
C11_Witness ==
    /\ Validated
    /\ vres.valid
    /\ Cardinality(DOMAIN lettersOf(placed)) = 2
    /\ \E p \in DOMAIN lettersOf(placed) :
          Cardinality(DOMAIN PerpLetters(eboard, p, lettersOf(placed)[p], vres.horizontal)) >= 2
    /\ AllRunsValid(eboard)

\* C12: validatePlacement called with an empty placed-tiles map returns the failure
\* "Place at least one tile." for every board and premiumsUsed, and never valid.
C12_EmptyPlacement ==
    (epc = "validated" /\ DOMAIN lettersOf(placed) = {}) =>
        (~vres.valid /\ vres.error = ERR_EMPTY)

\* validatePlacement was called with no tile on a board with tiles and with
\* premium-consumed empty squares
C12_Witness ==
    /\ epc = "validated"
    /\ DOMAIN lettersOf(placed) = {}
    /\ vres.error = ERR_EMPTY
    /\ filledCells(eboard) # {}
    /\ eused # filledCells(eboard)

OrdinaryErrors ==
    {ERR_SHAPE, ERR_NO_WORD, ERR_GAP, ERR_SHORT, ERR_NOT_WORD, ERR_NOT_WORD_COMBINED,
     ERR_CONNECT, ERR_CROSS}

\* C14: fail closed. While the Lexicon is empty, validatePlacement refuses every
\* non-empty placement as such: it does not return valid and does not return one
\* of the ordinary rejections (shape, gap, short, not a valid word, ...).
C14_FailClosed ==
    (Validated /\ WORD_SET = {}) =>
        (~vres.valid /\ vres.error \notin OrdinaryErrors)


\* ---------------------------------------------------------------- claims: ScenarioGenerator and app

\* a reference play without its defScore
asPlay(p) ==
    [word |-> p.word, row |-> p.row, col |-> p.col, horizontal |-> p.horizontal,
     score |-> p.score, positions |-> p.positions]

\* generateScenario has just returned a scenario to load
Generated == apc = "loop" /\ ~loadS.isNull

\* C13: whenever generateScenario returns a scenario, bestOffensive is one of
\* the plays findAllValidPlays returned for the scenario's board and rack and
\* no returned play scores more; bestDefensive is one of them and no returned
\* play has a higher defenseScore.
C13_BestPlays ==
    Generated =>
        /\ loadS.board = boardData.board
        /\ loadS.premiumsUsed = boardData.premiumsUsed
        /\ loadS.rack \in Racks
        /\ \E k \in 1 .. Len(plays) : plays[k] = loadS.bestOffensive
        /\ \A k \in 1 .. Len(plays) : loadS.bestOffensive.score >= plays[k].score
        /\ \E k \in 1 .. Len(plays) :
              /\ plays[k] = asPlay(loadS.bestDefensive)
              /\ loadS.bestDefensive.defScoreX2 = defenseScoreX2(plays[k], loadS.board)
        /\ \A k \in 1 .. Len(plays) :
              loadS.bestDefensive.defScoreX2 >= defenseScoreX2(plays[k], loadS.board)

\* a scenario whose best plays are two different plays, neither the first play
\* findAllValidPlays returned
C13_Witness ==
    /\ Generated
    /\ Len(plays) >= MIN_PLAYS
    /\ LET returned == findAllValidPlays(loadS.board, loadS.rack, loadS.premiumsUsed)
       IN  /\ loadS.bestOffensive # returned[1]
           /\ asPlay(loadS.bestDefensive) # returned[1]
           /\ plays # returned
    /\ asPlay(loadS.bestDefensive) # loadS.bestOffensive
    /\ \E k \in 1 .. Len(plays) : plays[k].score < loadS.bestOffensive.score
    /\ \E k \in 1 .. Len(plays) :
          defenseScoreX2(plays[k], loadS.board) < loadS.bestDefensive.defScoreX2

\* C16: scenario generation always terminates: buildConnectedBoard makes at most
\* 200 growth iterations, generateScenario calls buildConnectedBoard at most 20
\* times and load calls generateScenario at most 40 times, whatever is drawn
\* and whether or not an attempt succeeds; the callback of load and a call of
\* buildConnectedBoard, once started, come to their end.
C16_Terminates ==
    /\ [](attempts <= 200 /\ buildCalls <= 20 /\ genCalls <= 40)
    /\ (apc \in {"loop", "build", "rack"}) ~> (apc = "idle")
    /\ (bpc \in {"seed", "grow"}) ~> (bpc \in {"done", "failed"})

\* load has made all 40 calls, each of which made all 20 calls, and none succeeded
C16_Witness ==
    /\ apc = "loop"
    /\ genCalls = 40
    /\ buildCalls = 20
    /\ loadS.isNull

\* buildConnectedBoard returns after its 200th iteration
C16_WitnessBuilder ==
    /\ bpc = "done"
    /\ attempts = 200
    /\ ~(STOP_TILES <= FilledCount(board))

\* load has run out of attempts: scenario is null and nothing is loading
Exhausted == apc = "idle" /\ ~loading /\ scenario.isNull

\* C17: when all 40 generateScenario attempts of load fail, the app ends in a
\* state from which a new generation can be started, or the failure is
\* reported: it is never left with scenario = null, loading = false and no
\* event that starts a generation.
C17_Recoverable ==
    Exhausted => (canClickLoad \/ errorMsg # NULL \/ ENABLED (Mount \/ LoadClick))

\* ---------------------------------------------------------------- claims: premiumsUsed of the builder

\* C21: at every point of buildConnectedBoard and in its result, the
\* coordinates in premiumsUsed are exactly the filled cells of the board: no
\* empty cell is premium-consumed, and every filled cell is.
C21_UsedIsFilled ==
    /\ premiumsUsed = Filled(board)
    /\ \A p \in Cells : board[p[1]][p[2]] = NULL => p \notin premiumsUsed

\* a returned board of two words or more, one of its tiles on a premium square
\* and an empty premium square left beside it
C21_Witness ==
    /\ bpc = "done"
    /\ FilledCount(board) >= 5
    /\ Cardinality(premiumsUsed) = FilledCount(board)
    /\ \E p \in premiumsUsed : getPremium(p[1], p[2]) # NULL
    /\ \E p \in Cells \ premiumsUsed : getPremium(p[1], p[2]) # NULL

\* ---------------------------------------------------------------- claims: the Lexicon's lifecycle

\* validatePlacement comes to its word test (line 608) with these tiles: it has
\* not returned one of the errors of lines 541-605
readsWordSet(b, placedObj, pu) ==
    LET v == validatePlacement(b, placedObj, pu)
    IN  v.valid \/ v.error \notin {ERR_EMPTY, ERR_SHAPE, ERR_NO_WORD, ERR_GAP, ERR_SHORT}

\* a step that reads the WORD_SET of the engine is next: the module makes
\* WORD_LIST of it (line 51), generateScenario is running (buildConnectedBoard
\* reads WORD_LIST and WORD_SET, lines 74-146, findAllValidPlays lines 278-360), or
\* a submit is possible for which validatePlacement comes to its word test
EngineReads ==
    \/ apc = "module"
    \/ apc \in {"build", "rack"}
    \/ /\ Playing
       /\ round # "done"
       /\ readsWordSet(scenario.board, placed, scenario.premiumsUsed)

\* the render reads the WORD_SET of the component (lines 870 and 892): a placed
\* tile lies in a run of two cells or more of the merged board
RenderReads ==
    /\ rendered
    /\ \E i \in 1 .. Len(placed) :
          \E q \in Cells :
              /\ Adjacent(placed[i][1], q)
              /\ \/ scenario.board[q[1]][q[2]] # NULL
                 \/ q \in DOMAIN lettersOf(placed)

\* a word set of the program is read
LexiconUsed == EngineReads \/ RenderReads

\* C22: the Lexicon is loaded before its first use: in every interleaving of
\* the dictionary fetch callbacks and the timer of load, generateScenario, and
\* validatePlacement on submit, run only after the dictionary has finished
\* loading, that is when the fetch has settled, the load effect has cleared its
\* loading flag and the word set that is read is the one the effect stored (so the
\* Lexicon is not changed after it has been used).
C22_LoadedBeforeUse ==
    /\ LexiconUsed => (dpc = "settled" /\ ~isLoadingDictCell)
    /\ EngineReads => WORD_SET = wordSetCell
    /\ RenderReads => trainerWORD_SET = wordSetCell

\* ---------------------------------------------------------------- claims: the rounds

\* validatePlacement accepts the tiles now placed
Accepts == validatePlacement(scenario.board, placed, scenario.premiumsUsed).valid

\* the step is a submit that sets an error message
RejectedSubmit == errorMsg' # NULL /\ errorMsg' # errorMsg

\* the step is the start of load
LoadStep == apc' = "timer" /\ apc # "timer"

\* C24: within a scenario the round goes offense, defense, done, one step per
\* submit that validatePlacement accepts; a submit it rejects sets the error
\* message and leaves round, offResult, defResult, stats and the placed tiles
\* alone; stats.played grows by exactly 1 per scenario, at the accepted
\* defense submit; offOk <= played and defOk <= played always.
C24_Rounds ==
    /\ [][/\ (round' # round /\ ~LoadStep) =>
                /\ \/ round = "offense" /\ round' = "defense" /\ ~offResult'.isNull
                   \/ round = "defense" /\ round' = "done" /\ ~defResult'.isNull
                /\ Playing /\ Accepts
                /\ errorMsg' = NULL
          /\ LoadStep => round' = "offense" /\ stats' = stats
          /\ RejectedSubmit =>
                /\ Playing /\ ~Accepts
                /\ UNCHANGED <<round, offResult, defResult, stats, placed>>
          /\ (stats' # stats \/ (round = "defense" /\ round' = "done")) =>
                /\ round = "defense" /\ round' = "done"
                /\ stats'.played = stats.played + 1
                /\ stats'.offOk \in {stats.offOk, stats.offOk + 1}
                /\ stats'.defOk \in {stats.defOk, stats.defOk + 1}
         ]_vars
    /\ [](stats.offOk <= stats.played /\ stats.defOk <= stats.played)

\* the second scenario is done: of the two, one offense and one defense matched
C24_Witness ==
    /\ round = "done"
    /\ stats.played = 2
    /\ stats.offOk = 1
    /\ stats.defOk = 1
    /\ ~offResult.isNull /\ ~defResult.isNull

\* a rejected submit in the defense round
C24_WitnessRejected ==
    /\ round = "defense"
    /\ errorMsg # NULL
    /\ DOMAIN lettersOf(placed) # {}
    /\ ~offResult.isNull /\ defResult.isNull

====
